---- MODULE Spec2Model ----
(***************************************************************************)
(* Task lifecycle managers (ADK summary agent, LangGraph YouTube agent),   *)
(* the agents they drive, and the pooled MCP session layer.                *)
(*                                                                         *)
(* Text is modelled as a sequence of one-character strings, so that        *)
(* lower(), startswith, "in", concatenation and JSON encoding/decoding are *)
(* computed the way the code computes them.                                *)
(***************************************************************************)
EXTENDS Integers, Sequences, FiniteSets, TLC

(***************************************************************************)
(* Bounds                                                                  *)
(***************************************************************************)
\* Most runner events / graph chunks one agent stream delivers.
MaxItems == 2

(***************************************************************************)
(* Text                                                                    *)
(***************************************************************************)
UpperAlpha ==
    <<"A","B","C","D","E","F","G","H","I","J","K","L","M",
      "N","O","P","Q","R","S","T","U","V","W","X","Y","Z">>

LowerAlpha ==
    <<"a","b","c","d","e","f","g","h","i","j","k","l","m",
      "n","o","p","q","r","s","t","u","v","w","x","y","z">>

\* str.lower() on one character.
LowerChar(c) ==
    IF \E i \in 1..Len(UpperAlpha) : UpperAlpha[i] = c
    THEN LowerAlpha[CHOOSE i \in 1..Len(UpperAlpha) : UpperAlpha[i] = c]
    ELSE c

\* str.lower()
Lower(s) == [i \in 1..Len(s) |-> LowerChar(s[i])]

\* s.startswith(p)
StartsWith(s, p) ==
    /\ Len(p) <= Len(s)
    /\ \A i \in 1..Len(p) : s[i] = p[i]

\* p in s
Contains(s, p) ==
    \E k \in 0..(Len(s) - Len(p)) : \A i \in 1..Len(p) : s[k + i] = p[i]

\* Optional values: None is the empty tuple, a present value a 1-tuple.
None == <<>>

Some(x) == <<x>>

S_marker ==
    <<"e","r","r","o","r",":">>

S_failed ==
    <<"f","a","i","l","e","d">>

S_Error ==
    <<"E","r","r","o","r",":">>

S_ProcessingStep ==
    <<"P","r","o","c","e","s","s","i","n","g"," ","s","t","e","p",".",".",".">>

S_TaskFinished ==
    <<"T","a","s","k"," ","f","i","n","i","s","h","e","d",".">>

S_StreamFailed ==
    <<"S","t","r","e","a","m"," ","f","a","i","l","e","d",":"," ">>

S_Failed ==
    <<"F","a","i","l","e","d",":"," ">>

S_AgentExecutionFailed ==
    <<"E","r","r","o","r",":"," ","A","g","e","n","t"," ","e","x","e","c","u","t","i","o","n"," ","f","a","i","l","e","d"," ","-"," ">>

S_AgentNoResponse ==
    <<"A","g","e","n","t"," ","f","a","i","l","e","d"," ","t","o"," ","p","r","o","d","u","c","e"," ","a"," ","r","e","s","p","o","n","s","e",".">>

S_ErrorDuringExecution ==
    <<"E","r","r","o","r"," ","d","u","r","i","n","g"," ","e","x","e","c","u","t","i","o","n",":"," ">>

S_FailedToProcess ==
    <<"E","r","r","o","r",":"," ","F","a","i","l","e","d"," ","t","o"," ","p","r","o","c","e","s","s"," ","r","e","q","u","e","s","t"," ","-"," ">>

S_YouTubeAgent ==
    <<"Y","o","u","T","u","b","e"," ","a","g","e","n","t">>

S_communicate ==
    <<"c","o","m","m","u","n","i","c","a","t","e">>

S_summarize ==
    <<"s","u","m","m","a","r","i","z","e">>

S_combine ==
    <<"c","o","m","b","i","n","e">>

S_RuntimeError ==
    <<"R","u","n","t","i","m","e","E","r","r","o","r">>

S_ValueError ==
    <<"V","a","l","u","e","E","r","r","o","r">>

\* Sample texts an LLM event may carry.
T_Final ==
    <<"F","i","n","a","l">>

T_ErrCombine ==
    <<"E","r","r","o","r",":"," ","c","o","m","b","i","n","e">>

T_ItFailed ==
    <<"I","t"," ","F","a","i","l","e","d">>

T_MidError ==
    <<"N","o"," ","e","r","r","o","r",":"," ","o","k">>

T_quota ==
    <<"q","u","o","t","a">>

T_query ==
    <<"q">>

(***************************************************************************)
(* JSON (json.loads / json.dumps), on text as character sequences           *)
(***************************************************************************)
S_Processing ==
    <<"P","r","o","c","e","s","s","i","n","g",".",".",".">>

S_StreamEndedNoOutput ==
    <<"E","r","r","o","r",":"," ","A","g","e","n","t"," ","s","t","r","e","a","m"," ","e","n","d","e","d"," ","w","i","t","h","o","u","t"," ","f","i","n","a","l"," ","o","u","t","p","u","t",".">>

S_UnexpectedJsonType ==
    <<"E","r","r","o","r",":"," ","A","g","e","n","t"," ","r","e","t","u","r","n","e","d"," ","u","n","e","x","p","e","c","t","e","d"," ","J","S","O","N"," ","t","y","p","e",":"," ">>

S_true ==
    <<"t","r","u","e">>

S_false ==
    <<"f","a","l","s","e">>

S_null ==
    <<"n","u","l","l">>

\* A decoded JSON value: t is "str", "num", "lit", "arr" or "obj"; s the
\* text of a string, number or literal; items the elements of an array (of
\* an object: its keys and values in turn).
JValue(t, s, items) == [t |-> t, s |-> s, items |-> items]

JString(s) == JValue("str", s, <<>>)

JArray(items) == JValue("arr", <<>>, items)

JsonWhitespace == {" ", "\t", "\n", "\r"}

JsonDigits == {"0", "1", "2", "3", "4", "5", "6", "7", "8", "9"}

ParseFail == [ok |-> FALSE, v |-> JValue("none", <<>>, <<>>), i |-> 0]

ParseOk(v, i) == [ok |-> TRUE, v |-> v, i |-> i]

RECURSIVE SkipWs(_, _)
SkipWs(s, i) ==
    IF i <= Len(s) /\ s[i] \in JsonWhitespace THEN SkipWs(s, i + 1) ELSE i

\* The number of backslashes directly before position j, from lo on.
BackslashRun(s, lo, j) ==
    CHOOSE k \in 0..(j - lo) :
        /\ \A m \in 1..k : s[j - m] = "\\"
        /\ k = j - lo \/ s[j - k - 1] # "\\"

\* The n-th smallest element of a set of positions.
NthPosition(K, n) == CHOOSE p \in K : Cardinality({q \in K : q <= p}) = n

JsonUnescape(c) ==
    IF c = "n" THEN "\n" ELSE IF c = "t" THEN "\t" ELSE IF c = "r" THEN "\r" ELSE c

\* The text between the opening quote at i - 1 and the closing quote at
\* close, with the escapes at the positions in escapes decoded.
StringBody(s, i, close, escapes, kept) ==
    IF \E p \in escapes : s[p + 1] \notin {"\"", "\\", "/", "n", "t", "r"}
    THEN ParseFail
    ELSE IF \E p \in kept : s[p] \in {"\n", "\t", "\r"} THEN ParseFail
    ELSE ParseOk(JString([n \in 1..Cardinality(kept) |->
                    IF (NthPosition(kept, n) - 1) \in escapes
                    THEN JsonUnescape(s[NthPosition(kept, n)])
                    ELSE s[NthPosition(kept, n)]]),
                 close + 1)

StringUpTo(s, i, close) ==
    StringBody(s, i, close,
               {p \in i..(close - 1) : s[p] = "\\" /\ BackslashRun(s, i, p) % 2 = 0},
               {p \in i..(close - 1) :
                    ~(s[p] = "\\" /\ BackslashRun(s, i, p) % 2 = 0)})

StringClosing(s, i, closing) ==
    IF closing = {} THEN ParseFail
    ELSE StringUpTo(s, i, CHOOSE j \in closing : \A q \in closing : j <= q)

\* The body of a string literal from position i (after the opening quote):
\* it ends at the first quote that no backslash escapes.
ScanString(s, i) ==
    StringClosing(s, i, {j \in i..Len(s) :
                            s[j] = "\"" /\ BackslashRun(s, i, j) % 2 = 0})

RECURSIVE ScanDigits(_, _)
ScanDigits(s, i) ==
    IF i <= Len(s) /\ s[i] \in JsonDigits THEN ScanDigits(s, i + 1) ELSE i

NumberEnd(s, i, a, b, c) ==
    IF b = a \/ (c # b /\ c = b + 1) THEN ParseFail
    ELSE ParseOk(JValue("num", SubSeq(s, i, c - 1), <<>>), c)

NumberFraction(s, i, a, b) ==
    NumberEnd(s, i, a, b,
              IF b <= Len(s) /\ s[b] = "." THEN ScanDigits(s, b + 1) ELSE b)

NumberInteger(s, i, a) ==
    NumberFraction(s, i, a,
                   IF a <= Len(s) /\ s[a] = "0" THEN a + 1 ELSE ScanDigits(s, a))

\* A number from position i: -? (0 | [1-9][0-9]*) (. [0-9]+)?
ScanNumber(s, i) ==
    NumberInteger(s, i, IF i <= Len(s) /\ s[i] = "-" THEN i + 1 ELSE i)

IsWordAt(s, i, w) ==
    i + Len(w) - 1 <= Len(s) /\ SubSeq(s, i, i + Len(w) - 1) = w

ScanLiteral(s, i) ==
    IF IsWordAt(s, i, S_true) THEN ParseOk(JValue("lit", S_true, <<>>), i + 4)
    ELSE IF IsWordAt(s, i, S_false) THEN ParseOk(JValue("lit", S_false, <<>>), i + 5)
    ELSE IF IsWordAt(s, i, S_null) THEN ParseOk(JValue("lit", S_null, <<>>), i + 4)
    ELSE ParseFail

RECURSIVE ParseValue(_, _), ParseValueAt(_, _), ParseArray(_, _),
          ParseObject(_, _), ParseElements(_, _, _), ElementParsed(_, _, _),
          ElementEnd(_, _, _, _), ParseMembers(_, _, _), MemberKey(_, _, _),
          MemberColon(_, _, _), MemberValue(_, _, _, _),
          MemberParsed(_, _, _, _), MemberEnd(_, _, _, _, _)
\* One JSON value from position i0, after any whitespace.
ParseValue(s, i0) == ParseValueAt(s, SkipWs(s, i0))

ParseValueAt(s, i) ==
    IF i > Len(s) THEN ParseFail
    ELSE IF s[i] = "[" THEN ParseArray(s, SkipWs(s, i + 1))
    ELSE IF s[i] = "{" THEN ParseObject(s, SkipWs(s, i + 1))
    ELSE IF s[i] = "\"" THEN ScanString(s, i + 1)
    ELSE IF s[i] \in JsonDigits \cup {"-"} THEN ScanNumber(s, i)
    ELSE ScanLiteral(s, i)

ParseArray(s, j) ==
    IF j <= Len(s) /\ s[j] = "]" THEN ParseOk(JArray(<<>>), j + 1)
    ELSE ParseElements(s, j, <<>>)

ParseObject(s, j) ==
    IF j <= Len(s) /\ s[j] = "}" THEN ParseOk(JValue("obj", <<>>, <<>>), j + 1)
    ELSE ParseMembers(s, j, <<>>)

\* The elements of an array from position i, acc those already read.
ParseElements(s, i, acc) == ElementParsed(s, ParseValue(s, i), acc)

ElementParsed(s, r, acc) ==
    IF ~r.ok THEN ParseFail ELSE ElementEnd(s, r.v, SkipWs(s, r.i), acc)

ElementEnd(s, v, j, acc) ==
    IF j > Len(s) THEN ParseFail
    ELSE IF s[j] = "," THEN ParseElements(s, j + 1, Append(acc, v))
    ELSE IF s[j] = "]" THEN ParseOk(JArray(Append(acc, v)), j + 1)
    ELSE ParseFail

\* The members of an object from position i0, acc the keys and values
\* already read.
ParseMembers(s, i0, acc) == MemberKey(s, SkipWs(s, i0), acc)

MemberKey(s, i, acc) ==
    IF i <= Len(s) /\ s[i] = "\"" THEN MemberColon(s, ScanString(s, i + 1), acc)
    ELSE ParseFail

MemberColon(s, k, acc) ==
    IF ~k.ok THEN ParseFail ELSE MemberValue(s, k.v, SkipWs(s, k.i), acc)

MemberValue(s, key, c, acc) ==
    IF c <= Len(s) /\ s[c] = ":"
    THEN MemberParsed(s, key, ParseValue(s, c + 1), acc)
    ELSE ParseFail

MemberParsed(s, key, r, acc) ==
    IF ~r.ok THEN ParseFail ELSE MemberEnd(s, key, r.v, SkipWs(s, r.i), acc)

MemberEnd(s, key, v, j, acc) ==
    IF j > Len(s) THEN ParseFail
    ELSE IF s[j] = "," THEN ParseMembers(s, j + 1, acc \o <<key, v>>)
    ELSE IF s[j] = "}"
         THEN ParseOk(JValue("obj", <<>>, acc \o <<key, v>>), j + 1)
    ELSE ParseFail

LoadsEnd(s, r) ==
    IF r.ok /\ SkipWs(s, r.i) > Len(s) THEN r ELSE ParseFail

\* json.loads(s): ok is FALSE where Python raises JSONDecodeError.
json_loads(s) == LoadsEnd(s, ParseValue(s, 1))

\* The escaping json.dumps applies inside a string: a backslash before
\* each quote and backslash, \n, \t, \r for the control characters.
JsonEscape(s) ==
    LET special == {q \in 1..Len(s) : s[q] \in {"\"", "\\", "\n", "\t", "\r"}}
        start(p) == p + Cardinality({q \in special : q < p})
        code(c) == IF c = "\n" THEN "n" ELSE IF c = "\t" THEN "t"
                   ELSE IF c = "\r" THEN "r" ELSE c
    IN  [m \in 1..(Len(s) + Cardinality(special)) |->
            LET p == CHOOSE p \in 1..Len(s) :
                        /\ start(p) <= m
                        /\ m <= start(p) + (IF p \in special THEN 1 ELSE 0)
            IN  IF p \notin special THEN s[p]
                ELSE IF m = start(p) THEN "\\" ELSE code(s[p])]

\* json.dumps of a decoded value (", " between the elements of a list).
RECURSIVE json_dumps(_), JsonJoin(_)
json_dumps(v) ==
    IF v.t = "str" THEN <<"\"">> \o JsonEscape(v.s) \o <<"\"">>
    ELSE IF v.t = "arr" THEN <<"[">> \o JsonJoin(v.items) \o <<"]">>
    ELSE IF v.t = "obj" /\ v.items = <<>> THEN <<"{", "}">>
    ELSE v.s

JsonJoin(items) ==
    IF items = <<>> THEN <<>>
    ELSE IF Len(items) = 1 THEN json_dumps(items[1])
    ELSE json_dumps(items[1]) \o <<",", " ">> \o JsonJoin(Tail(items))

\* json.dumps([s]) for one Python string s.
json_dumps_strings(ss) == json_dumps(JArray([i \in 1..Len(ss) |-> JString(ss[i])]))

\* type(data).__name__ of a decoded value.
PyTypeName(v) ==
    IF v.t = "arr" THEN <<"l","i","s","t">>
    ELSE IF v.t = "obj" THEN <<"d","i","c","t">>
    ELSE IF v.t = "str" THEN <<"s","t","r">>
    ELSE IF v.t = "num"
         THEN IF \E i \in 1..Len(v.s) : v.s[i] = "." THEN <<"f","l","o","a","t">> ELSE <<"i","n","t">>
    ELSE IF v.s = S_null THEN <<"N","o","n","e","T","y","p","e">>
    ELSE <<"b","o","o","l">>

(***************************************************************************)
(* Requests, runs, task store                                              *)
(***************************************************************************)
TaskIds == {"t1", "t2"}

Runs == {"r1", "r2"}

Managers == {"adk", "langgraph"}

SUBMITTED == "submitted"

WORKING == "working"

COMPLETED == "completed"

FAILED == "failed"

VARIABLES
    manager,    \* which AgentTaskManager this process runs
    tasks,      \* InMemoryTaskManager.tasks: task id -> Task
    pc,         \* per run: position in on_send_task / _stream_generator
    req,        \* per run: the request it serves
    seen,       \* per run: runner events the agent stream consumed so far
    pending,    \* per run: (final_status, final_artifacts) awaiting update_store
    events,     \* per run: what _stream_generator yielded, in order
    response,   \* per run: what the handler returned (or raised)
    transitions \* per run: the states its update_store calls wrote, in order

tmvars == <<manager, tasks, pc, req, seen, pending, events, response, transitions>>

VARIABLES
    mcp_session_locks,  \* _mcp_session_locks: endpoint -> asyncio.Lock
    mcp_sessions,       \* _mcp_sessions: endpoint -> asyncio.Queue of sessions
    mcp_stacks,         \* _mcp_stacks: the endpoints that have an AsyncExitStack
    caller,             \* per tool call: position, endpoint, session it holds
    create_calls,       \* per endpoint: create_session() calls made
    create_failures,    \* per endpoint: create_session() calls that raised
    sessions_created,   \* per endpoint: sessions create_session() returned
    tool_return,        \* what the latest step handed a tool function's caller
    wf                  \* one run of the agent's workflow: its tool calls and answer

poolvars == <<mcp_session_locks, mcp_sessions, mcp_stacks, caller,
              create_calls, create_failures, sessions_created, tool_return, wf>>

VARIABLES
    module_globals,     \* _exit_stack, _mcp_toolset, _tools of the tools module
    toolsets,           \* the MCPToolset objects constructed so far
    tools_caller,       \* per call of get_mcp_tools: position, toolset, result
    agent_stream        \* per run: position and items of YouTubeVideoAgent.stream

agentvars == <<module_globals, toolsets, tools_caller, agent_stream>>

vars == <<tmvars, poolvars, agentvars>>

(***************************************************************************)
(* A2A types (common.types), as the task managers build them               *)
(***************************************************************************)
\* TaskStatus(state=..., message=Message(role="agent", parts=[TextPart(text)]))
TaskStatus(state, message) == [state |-> state, message |-> message]

\* Artifact(parts=[TextPart(text=t)])
TextArtifact(t) == [type |-> "text", text |-> t, data |-> <<>>]

\* Artifact(parts=[DataPart(data=d)])
DataArtifact(d) == [type |-> "data", text |-> <<>>, data |-> d]

NoStatus == [state |-> "none", message |-> None]

\* SendTaskStreamingResponse(result=TaskStatusUpdateEvent(status, final))
StatusEvent(status, final) ==
    [kind |-> "status", status |-> status, final |-> final, artifact |-> None]

\* SendTaskStreamingResponse(result=TaskArtifactUpdateEvent(artifact))
ArtifactEvent(a) ==
    [kind |-> "artifact", status |-> NoStatus, final |-> FALSE, artifact |-> Some(a)]

\* JSONRPCResponse(error=InternalError(...))
RpcErrorEvent ==
    [kind |-> "rpc_error", status |-> NoStatus, final |-> FALSE, artifact |-> None]

HistoryEntry(role, text) == [role |-> role, text |-> text]

(***************************************************************************)
(* InMemoryTaskManager (A2A common library): the store the handlers call   *)
(***************************************************************************)
\* upsert_task: create the task SUBMITTED on the first request for its id,
\* otherwise append the request's message to its history.
upsert_task(store, id, message) ==
    IF id \in DOMAIN store
    THEN [store EXCEPT ![id].history = Append(@, HistoryEntry("user", message))]
    ELSE [i \in DOMAIN store \cup {id} |->
            IF i = id
            THEN [status |-> TaskStatus(SUBMITTED, None),
                  artifacts |-> <<>>,
                  history |-> <<HistoryEntry("user", message)>>]
            ELSE store[i]]

\* update_store: set the status, append its message (if any) to the history,
\* extend the artifacts (if any).
update_store(store, id, status, artifacts) ==
    [store EXCEPT
        ![id].status = status,
        ![id].history = IF status.message # None
                        THEN Append(@, HistoryEntry("agent", status.message))
                        ELSE @,
        ![id].artifacts = @ \o artifacts]

(***************************************************************************)
(* SummaryAgent (ADK): invoke and stream over the runner's events          *)
(***************************************************************************)
\* A runner event: is_final_response(), error_code/error_message, joined text.
RunnerEvent(final, err, text) == [final |-> final, err |-> err, text |-> text]

\* Texts of a partial (non-final) event and of a final response.
PartialTexts == {<<>>, T_ItFailed, T_ErrCombine}

FinalTexts == {T_Final, T_ErrCombine, T_ItFailed, T_MidError, <<>>}

RunnerEvents ==
    {RunnerEvent(FALSE, None, t) : t \in PartialTexts}
        \cup {RunnerEvent(TRUE, None, t) : t \in FinalTexts}
        \cup {RunnerEvent(FALSE, Some(T_quota), <<>>)}

\* type(e).__name__ of an exception raised by the runner or the graph.
ExceptionNames == {S_RuntimeError}

\* SummaryAgent.invoke: the final response of a completed runner.run().
invoke_events(es) ==
    LET last == es[Len(es)]
        final_response ==
            IF es = <<>> THEN <<>>
            ELSE IF last.err # None THEN S_AgentExecutionFailed \o last.err[1]
            ELSE last.text
    IN  IF final_response # <<>> THEN final_response ELSE S_AgentNoResponse

\* SummaryAgent.invoke when runner.run() raises.
invoke_raised(exc) == S_FailedToProcess \o exc

\* SummaryAgent.stream: the item yielded for one runner event.
stream_item(ev) ==
    LET content_text ==
            IF ev.err # None THEN S_ErrorDuringExecution \o ev.err[1]
            ELSE ev.text
        keyword ==
            \/ Contains(content_text, S_YouTubeAgent)
            \/ Contains(content_text, S_communicate)
            \/ Contains(content_text, S_summarize)
            \/ Contains(content_text, S_combine)
        is_final ==
            \/ ev.final
            \/ ev.err # None
            \/ (Contains(content_text, S_Error) /\ keyword)
    IN  [is_task_complete |-> is_final,
         content |-> IF content_text # <<>> THEN content_text
                     ELSE S_ProcessingStep]

\* SummaryAgent.stream: the item yielded when runner.run_async() raises.
stream_raised_item(exc) ==
    [is_task_complete |-> TRUE, content |-> S_FailedToProcess \o exc]

(***************************************************************************)
(* ADK AgentTaskManager: pure parts                                         *)
(***************************************************************************)
\* The content check without lower(): only the exact-case marker and
\* substring are recognised.
ContentSignalsErrorCaseSensitive(content) ==
    \/ StartsWith(content, S_marker)
    \/ Contains(content, S_failed)

\* The content check of the ADK task manager.
ContentSignalsError(content) ==
    \/ StartsWith(Lower(content), S_marker)
    \/ Contains(Lower(content), S_failed)

\* _stream_generator, one item: the status event it yields and, when the
\* item ends the task, what it hands to update_store.
adk_stream_step(item) ==
    LET content == item.content
        sniffed == ContentSignalsError(content)
        current_task_state ==
            IF sniffed THEN FAILED
            ELSE IF item.is_task_complete THEN COMPLETED ELSE WORKING
        is_complete == item.is_task_complete \/ sniffed
        yielded == TaskStatus(current_task_state,
                              IF content # <<>> THEN Some(content) ELSE None)
        final_status ==
            IF current_task_state = COMPLETED /\ content # <<>> THEN yielded
            ELSE IF current_task_state = FAILED /\ content # <<>>
                 THEN TaskStatus(FAILED, Some(content))
            ELSE IF current_task_state = COMPLETED
                 THEN TaskStatus(COMPLETED, Some(S_TaskFinished))
            ELSE yielded
        final_artifacts ==
            IF current_task_state = COMPLETED /\ content # <<>>
            THEN <<TextArtifact(content)>>
            ELSE <<>>
    IN  [event |-> StatusEvent(yielded, is_complete),
         is_complete |-> is_complete,
         final_status |-> final_status,
         final_artifacts |-> final_artifacts]

\* on_send_task: status and artifacts computed from the agent's result.
adk_send_result(result_content) ==
    LET task_state ==
            IF ContentSignalsError(result_content) THEN FAILED ELSE COMPLETED
    IN  [status |-> TaskStatus(task_state,
                               IF task_state = FAILED
                               THEN Some(result_content) ELSE None),
         artifacts |-> IF task_state = COMPLETED
                       THEN <<TextArtifact(result_content)>> ELSE <<>>]

\* The except branches: f"Failed: {type(e).__name__}" (on_send_task) and
\* f"Stream failed: {type(e).__name__}" (_stream_generator).
send_exception_status(exc) == TaskStatus(FAILED, Some(S_Failed \o exc))

stream_exception_status(exc) == TaskStatus(FAILED, Some(S_StreamFailed \o exc))

(***************************************************************************)
(* YouTubeVideoAgent (LangGraph): invoke and stream over the graph          *)
(***************************************************************************)
\* Sample final messages of the graph (last_message.content).
G_TwoVideos ==
    <<"[","\"","v","1","\"",","," ","\"","v","2","\"","]">>

G_Empty ==
    <<"[","]">>

G_ErrorList ==
    <<"[","\"","E","r","r","o","r",":"," ","n","o","n","e","\"","]">>

G_NoVideos ==
    <<"N","o"," ","v","i","d","e","o","s">>

G_Object ==
    <<"{","\"","e","r","r","o","r","\"",":"," ","\"","x","\"","}">>

GraphContents == {G_TwoVideos, G_Empty, G_ErrorList, G_NoVideos, G_Object}

\* invoke / stream: output that is not JSON is wrapped into a JSON list.
graph_result(response_content) ==
    IF json_loads(response_content).ok THEN response_content
    ELSE json_dumps_strings(<<response_content>>)

\* invoke / stream when the graph raises.
graph_raised(exc) == json_dumps_strings(<<S_FailedToProcess \o exc>>)

\* Every final content the agent can hand to the task manager.
GraphResults ==
    {graph_result(c) : c \in GraphContents}
        \cup {graph_raised(x) : x \in ExceptionNames}

\* The item stream() yields per chunk of the graph's log.
graph_chunk_item == [is_task_complete |-> FALSE, content |-> S_Processing]

(***************************************************************************)
(* LangGraph AgentTaskManager: pure parts                                   *)
(***************************************************************************)
\* A check that takes a list for an error list when any item is an error
\* text.
any_item_is_error(items) ==
    \E i \in 1..Len(items) :
        items[i].t = "str" /\ StartsWith(items[i].s, S_Error)

\* _parse_agent_result once json.loads returned (r.ok) or raised.
first_item_is_error(items) ==
    /\ items # <<>>
    /\ items[1].t = "str"
    /\ StartsWith(items[1].s, S_Error)

parsed_list(items) ==
    IF first_item_is_error(items)
    THEN [state |-> FAILED, artifacts |-> <<TextArtifact(items[1].s)>>]
    ELSE [state |-> COMPLETED, artifacts |-> <<DataArtifact(items)>>]

parsed_result(result_content, r) ==
    IF ~r.ok
    THEN [state |-> FAILED, artifacts |-> <<TextArtifact(result_content)>>]
    ELSE IF r.v.t = "arr" THEN parsed_list(r.v.items)
    ELSE [state |-> FAILED,
          artifacts |-> <<TextArtifact(S_UnexpectedJsonType \o PyTypeName(r.v))>>]

\* _parse_agent_result: (task_state, artifacts) of the agent's output.
parse_agent_result(result_content) ==
    parsed_result(result_content, json_loads(result_content))

\* on_send_task: the status built from the parsed result.
lg_send_status(task_state, artifacts) ==
    TaskStatus(task_state,
               IF task_state # COMPLETED /\ artifacts # <<>>
                    /\ artifacts[1].type = "text"
               THEN Some(artifacts[1].text) ELSE None)

\* _stream_generator, finally: the final status.
lg_final_status(final_task_state, final_artifacts) ==
    TaskStatus(final_task_state,
               IF final_task_state = FAILED /\ final_artifacts # <<>>
                    /\ final_artifacts[1].type = "text"
               THEN Some(final_artifacts[1].text) ELSE None)

\* The artifacts handed to update_store: only those of a COMPLETED task.
lg_stored_artifacts(task_state, artifacts) ==
    IF task_state = COMPLETED THEN artifacts ELSE <<>>

\* _parse_agent_result on every string the task manager hands it, computed
\* once.
ParsedAgentResult ==
    [c \in GraphResults \cup {graph_chunk_item.content} |-> parse_agent_result(c)]

\* _stream_generator after its loop ended without an exception.
lg_stream_outcome(final_result_content) ==
    IF final_result_content # None
    THEN ParsedAgentResult[final_result_content[1]]
    ELSE [state |-> FAILED,
          artifacts |-> <<TextArtifact(S_StreamEndedNoOutput)>>]

(***************************************************************************)
(* Requests and handler results                                             *)
(***************************************************************************)
\* A request: task id, handler, whether its acceptedOutputModes are
\* compatible with the agent's, and whether message.parts is non-empty.
Request(id, mode, compatible, hasParts) ==
    [id |-> id, mode |-> mode, compatible |-> compatible, hasParts |-> hasParts]

Requests ==
    {Request(id, m, c, h) :
        id \in TaskIds, m \in {"send", "subscribe"},
        c \in BOOLEAN, h \in BOOLEAN}

NoRequest == Request("none", "none", FALSE, FALSE)

\* message.parts of the request, as text (None: no parts).
RequestMessage(q) == IF q.hasParts THEN Some(T_query) ELSE None

NoResponse == [kind |-> "none", task |-> None, error |-> <<>>]

\* utils.new_incompatible_types_error(request.id)
IncompatibleTypesResponse ==
    [kind |-> "incompatible_types", task |-> None, error |-> <<>>]

\* SendTaskResponse(id=request.id, result=task)
TaskResponse(task) == [kind |-> "task", task |-> Some(task), error |-> <<>>]

\* The async iterable on_send_task_subscribe returns.
StreamResponse == [kind |-> "stream", task |-> None, error |-> <<>>]

\* An exception leaving the handler or the generator.
Raised(exc) == [kind |-> "raised", task |-> None, error |-> exc]

NoPending == [status |-> NoStatus, artifacts |-> <<>>]

TMInit ==
    /\ manager \in Managers
    /\ tasks = <<>>
    /\ pc = [r \in Runs |-> "idle"]
    /\ req = [r \in Runs |-> NoRequest]
    /\ seen = [r \in Runs |-> <<>>]
    /\ pending = [r \in Runs |-> NoPending]
    /\ events = [r \in Runs |-> <<>>]
    /\ response = [r \in Runs |-> NoResponse]
    /\ transitions = [r \in Runs |-> <<>>]

(***************************************************************************)
(* Handlers common to both task managers                                    *)
(***************************************************************************)
\* on_send_task with the modality check after the upsert.
RejectAfterUpsert(r) ==
    /\ pc[r] = "idle"
    /\ \E q \in Requests :
        /\ ~q.compatible
        /\ req' = [req EXCEPT ![r] = q]
        /\ tasks' = upsert_task(tasks, q.id, RequestMessage(q))
    /\ response' = [response EXCEPT ![r] = IncompatibleTypesResponse]
    /\ pc' = [pc EXCEPT ![r] = "rejected"]
    /\ UNCHANGED <<poolvars, agentvars>>
    /\ UNCHANGED <<manager, seen, pending, events, transitions>>

\* on_send_task / on_send_task_subscribe: the modality check fails.
RejectIncompatible(r) ==
    /\ pc[r] = "idle"
    /\ \E q \in Requests :
        /\ ~q.compatible
        /\ req' = [req EXCEPT ![r] = q]
    /\ response' = [response EXCEPT ![r] = IncompatibleTypesResponse]
    /\ pc' = [pc EXCEPT ![r] = "rejected"]
    /\ UNCHANGED <<poolvars, agentvars>>
    /\ UNCHANGED <<manager, tasks, seen, pending, events, transitions>>

\* on_send_task up to "await self.upsert_task(task_send_params)".
on_send_task_upsert(r) ==
    /\ pc[r] = "idle"
    /\ \E q \in Requests :
        /\ q.compatible
        /\ q.mode = "send"
        /\ req' = [req EXCEPT ![r] = q]
        /\ tasks' = upsert_task(tasks, q.id, RequestMessage(q))
    /\ pc' = [pc EXCEPT ![r] = "send_run"]
    /\ UNCHANGED <<poolvars, agentvars>>
    /\ UNCHANGED <<manager, seen, pending, events, response, transitions>>

\* on_send_task_subscribe: upsert, set up the SSE consumer, start
\* _run_streaming_agent as a task, return the event iterable.
on_send_task_subscribe(r) ==
    /\ pc[r] = "idle"
    /\ \E q \in Requests :
        /\ q.compatible
        /\ q.mode = "subscribe"
        /\ req' = [req EXCEPT ![r] = q]
        /\ tasks' = upsert_task(tasks, q.id, RequestMessage(q))
    /\ response' = [response EXCEPT ![r] = StreamResponse]
    /\ pc' = [pc EXCEPT ![r] = "gen_start"]
    /\ UNCHANGED <<poolvars, agentvars>>
    /\ UNCHANGED <<manager, seen, pending, events, transitions>>

\* _stream_generator before its try: _get_user_query raises ValueError on a
\* message without parts, which ends the generator and _run_streaming_agent.
stream_generator_start(r) ==
    /\ pc[r] = "gen_start"
    /\ IF req[r].hasParts
       THEN /\ pc' = [pc EXCEPT ![r] = "stream"]
            /\ UNCHANGED response
       ELSE /\ pc' = [pc EXCEPT ![r] = "crashed"]
            /\ response' = [response EXCEPT ![r] = Raised(S_ValueError)]
    /\ UNCHANGED <<poolvars, agentvars>>
    /\ UNCHANGED <<manager, tasks, req, seen, pending, events, transitions>>

(***************************************************************************)
(* ADK AgentTaskManager                                                     *)
(***************************************************************************)
BoundedSeqs(S, n) == UNION {[1..k -> S] : k \in 0..n}

\* Every string agent.invoke can return: from a completed run of up to
\* MaxItems events, or from a run that raised.
InvokeResults ==
    {invoke_events(es) : es \in BoundedSeqs(RunnerEvents, MaxItems)}
        \cup {invoke_raised(x) : x \in ExceptionNames}

\* on_send_task after the upsert: query extraction, agent.invoke, the one
\* update_store, the returned record.
adk_on_send_task_run(r) ==
    /\ manager = "adk"
    /\ pc[r] = "send_run"
    /\ \/ /\ ~req[r].hasParts
          /\ response' = [response EXCEPT ![r] = Raised(S_ValueError)]
          /\ pc' = [pc EXCEPT ![r] = "crashed"]
          /\ UNCHANGED tasks
       \/ /\ req[r].hasParts
          /\ \E result_content \in InvokeResults :
                LET res == adk_send_result(result_content)
                    store == update_store(tasks, req[r].id, res.status, res.artifacts)
                IN  /\ tasks' = store
                    /\ response' = [response EXCEPT ![r] = TaskResponse(store[req[r].id])]
          /\ pc' = [pc EXCEPT ![r] = "done"]
       \/ /\ req[r].hasParts
          /\ \E x \in ExceptionNames :
                LET store == update_store(tasks, req[r].id, send_exception_status(x), <<>>)
                IN  /\ tasks' = store
                    /\ response' = [response EXCEPT ![r] = TaskResponse(store[req[r].id])]
          /\ pc' = [pc EXCEPT ![r] = "done"]
    /\ UNCHANGED <<poolvars, agentvars>>
    /\ UNCHANGED <<manager, req, seen, pending, events>>
    /\ transitions' = [transitions EXCEPT ![r] = IF pc'[r] = "done"
                            THEN Append(@, tasks'[req[r].id].status.state) ELSE @]

\* The generator handles one item of agent.stream: yields its status event
\* and, if the item ends the task, goes on to update_store.
adk_handle_item(r, ev, item) ==
    LET step == adk_stream_step(item)
    IN  /\ seen' = [seen EXCEPT ![r] = Append(@, ev)]
        /\ events' = [events EXCEPT ![r] = Append(@, step.event)]
        /\ IF step.is_complete
           THEN /\ pending' = [pending EXCEPT ![r] =
                        [status |-> step.final_status,
                         artifacts |-> step.final_artifacts]]
                /\ pc' = [pc EXCEPT ![r] = "store"]
           ELSE /\ pc' = [pc EXCEPT ![r] = "stream"]
                /\ UNCHANGED pending
        /\ UNCHANGED <<poolvars, agentvars>>
        /\ UNCHANGED <<manager, tasks, req, response, transitions>>

\* The runner delivers one more event.
adk_stream_next(r) ==
    /\ manager = "adk"
    /\ pc[r] = "stream"
    /\ Len(seen[r]) < MaxItems
    /\ \E ev \in RunnerEvents : adk_handle_item(r, ev, stream_item(ev))

RunnerRaised == RunnerEvent(TRUE, Some(S_RuntimeError), <<"!">>)

\* runner.run_async raises inside SummaryAgent.stream, which yields an error
\* item.
adk_stream_runner_raises(r) ==
    /\ manager = "adk"
    /\ pc[r] = "stream"
    /\ \E x \in ExceptionNames :
        adk_handle_item(r, RunnerRaised, stream_raised_item(x))

\* The runner's events end with no completing item: the generator's loop
\* ends and the generator returns.
adk_stream_ends(r) ==
    /\ manager = "adk"
    /\ pc[r] = "stream"
    /\ pc' = [pc EXCEPT ![r] = "done"]
    /\ UNCHANGED <<poolvars, agentvars>>
    /\ UNCHANGED <<manager, tasks, req, seen, pending, events, response, transitions>>

\* A generator that stores its final status under the first task id.
adk_stream_store_first_task(r) ==
    /\ manager = "adk"
    /\ pc[r] = "store"
    /\ "t1" \in DOMAIN tasks
    /\ tasks' = update_store(tasks, "t1", pending[r].status, pending[r].artifacts)
    /\ pc' = [pc EXCEPT ![r] = "done"]
    /\ UNCHANGED <<poolvars, agentvars>>
    /\ UNCHANGED <<manager, req, seen, pending, events, response>>
    /\ transitions' = [transitions EXCEPT ![r] = Append(@, pending[r].status.state)]

\* "await self.update_store(...)" and the break that ends the generator.
adk_stream_store(r) ==
    /\ manager = "adk"
    /\ pc[r] = "store"
    /\ tasks' = update_store(tasks, req[r].id, pending[r].status, pending[r].artifacts)
    /\ pc' = [pc EXCEPT ![r] = "done"]
    /\ UNCHANGED <<poolvars, agentvars>>
    /\ UNCHANGED <<manager, req, seen, pending, events, response>>
    /\ transitions' = [transitions EXCEPT ![r] = Append(@, pending[r].status.state)]

\* agent.stream raises before its first item (runner or session set-up):
\* the except branch yields the JSON-RPC error.
adk_stream_raises(r) ==
    /\ manager = "adk"
    /\ pc[r] = "stream"
    /\ seen[r] = <<>>
    /\ \E x \in ExceptionNames :
        pending' = [pending EXCEPT ![r] =
                        [status |-> stream_exception_status(x), artifacts |-> <<>>]]
    /\ events' = [events EXCEPT ![r] = Append(@, RpcErrorEvent)]
    /\ pc' = [pc EXCEPT ![r] = "except_store"]
    /\ UNCHANGED <<poolvars, agentvars>>
    /\ UNCHANGED <<manager, tasks, req, seen, response, transitions>>

\* The except branch after the JSON-RPC error: update_store, then the final
\* status event.
adk_stream_except_store(r) ==
    /\ manager = "adk"
    /\ pc[r] = "except_store"
    /\ tasks' = update_store(tasks, req[r].id, pending[r].status, <<>>)
    /\ events' = [events EXCEPT ![r] = Append(@, StatusEvent(pending[r].status, TRUE))]
    /\ pc' = [pc EXCEPT ![r] = "done"]
    /\ UNCHANGED <<poolvars, agentvars>>
    /\ UNCHANGED <<manager, req, seen, pending, response>>
    /\ transitions' = [transitions EXCEPT ![r] = Append(@, pending[r].status.state)]

(***************************************************************************)
(* LangGraph AgentTaskManager                                               *)
(***************************************************************************)
\* on_send_task after the upsert.
lg_on_send_task_run(r) ==
    /\ manager = "langgraph"
    /\ pc[r] = "send_run"
    /\ \/ /\ ~req[r].hasParts
          /\ response' = [response EXCEPT ![r] = Raised(S_ValueError)]
          /\ pc' = [pc EXCEPT ![r] = "crashed"]
          /\ UNCHANGED tasks
       \/ /\ req[r].hasParts
          /\ \E result_content \in GraphResults :
                LET res == ParsedAgentResult[result_content]
                    store == update_store(tasks, req[r].id,
                                lg_send_status(res.state, res.artifacts),
                                lg_stored_artifacts(res.state, res.artifacts))
                IN  /\ tasks' = store
                    /\ response' = [response EXCEPT ![r] = TaskResponse(store[req[r].id])]
          /\ pc' = [pc EXCEPT ![r] = "done"]
       \/ /\ req[r].hasParts
          /\ \E x \in ExceptionNames :
                LET store == update_store(tasks, req[r].id, send_exception_status(x), <<>>)
                IN  /\ tasks' = store
                    /\ response' = [response EXCEPT ![r] = TaskResponse(store[req[r].id])]
          /\ pc' = [pc EXCEPT ![r] = "done"]
    /\ UNCHANGED <<poolvars, agentvars>>
    /\ UNCHANGED <<manager, req, seen, pending, events>>
    /\ transitions' = [transitions EXCEPT ![r] = IF pc'[r] = "done"
                            THEN Append(@, tasks'[req[r].id].status.state) ELSE @]

\* A non-final item: the generator yields a WORKING status event.
lg_stream_chunk(r) ==
    /\ manager = "langgraph"
    /\ pc[r] = "stream"
    /\ Len(seen[r]) < MaxItems
    /\ seen' = [seen EXCEPT ![r] = Append(@, RunnerEvent(FALSE, None, <<>>))]
    /\ events' = [events EXCEPT ![r] =
            Append(@, StatusEvent(TaskStatus(WORKING, Some(graph_chunk_item.content)),
                                  FALSE))]
    /\ UNCHANGED <<poolvars, agentvars>>
    /\ UNCHANGED <<manager, tasks, pc, req, pending, response, transitions>>

\* The final item: the loop breaks and the content is parsed.
lg_stream_final(r) ==
    /\ manager = "langgraph"
    /\ pc[r] = "stream"
    /\ \E content \in GraphResults :
        LET res == lg_stream_outcome(Some(content))
        IN  /\ seen' = [seen EXCEPT ![r] = Append(@, RunnerEvent(TRUE, None, content))]
            /\ pending' = [pending EXCEPT ![r] =
                    [status |-> lg_final_status(res.state, res.artifacts),
                     artifacts |-> res.artifacts]]
    /\ pc' = [pc EXCEPT ![r] = "finally"]
    /\ UNCHANGED <<poolvars, agentvars>>
    /\ UNCHANGED <<manager, tasks, req, events, response, transitions>>

\* The agent's stream ends without a final item: the latest content, if
\* any, is parsed as the result.
lg_stream_ends(r) ==
    /\ manager = "langgraph"
    /\ pc[r] = "stream"
    /\ LET res == lg_stream_outcome(IF seen[r] = <<>> THEN None
                                    ELSE Some(graph_chunk_item.content))
       IN  pending' = [pending EXCEPT ![r] =
                [status |-> lg_final_status(res.state, res.artifacts),
                 artifacts |-> res.artifacts]]
    /\ pc' = [pc EXCEPT ![r] = "finally"]
    /\ UNCHANGED <<poolvars, agentvars>>
    /\ UNCHANGED <<manager, tasks, req, seen, events, response, transitions>>

\* The agent's stream raises: the except branch yields the JSON-RPC error.
lg_stream_raises(r) ==
    /\ manager = "langgraph"
    /\ pc[r] = "stream"
    /\ \E x \in ExceptionNames :
        LET final_artifacts == <<TextArtifact(S_StreamFailed \o x)>>
        IN  pending' = [pending EXCEPT ![r] =
                [status |-> lg_final_status(FAILED, final_artifacts),
                 artifacts |-> final_artifacts]]
    /\ events' = [events EXCEPT ![r] = Append(@, RpcErrorEvent)]
    /\ pc' = [pc EXCEPT ![r] = "finally"]
    /\ UNCHANGED <<poolvars, agentvars>>
    /\ UNCHANGED <<manager, tasks, req, seen, response, transitions>>

\* A finally that yields the artifact events of every task, after the final
\* status event.
lg_stream_finally_status_first(r) ==
    /\ manager = "langgraph"
    /\ pc[r] = "finally"
    /\ LET final_status == pending[r].status
           final_artifacts == pending[r].artifacts
       IN  /\ tasks' = update_store(tasks, req[r].id, final_status,
                            lg_stored_artifacts(final_status.state, final_artifacts))
           /\ events' = [events EXCEPT ![r] =
                    @ \o <<StatusEvent(final_status, TRUE)>>
                      \o [i \in 1..Len(final_artifacts) |->
                                    ArtifactEvent(final_artifacts[i])]]
    /\ pc' = [pc EXCEPT ![r] = "done"]
    /\ UNCHANGED <<poolvars, agentvars>>
    /\ UNCHANGED <<manager, req, seen, pending, response>>
    /\ transitions' = [transitions EXCEPT ![r] = Append(@, pending[r].status.state)]

\* finally: update_store, the artifact events of a COMPLETED task, the
\* final status event.
lg_stream_finally(r) ==
    /\ manager = "langgraph"
    /\ pc[r] = "finally"
    /\ LET final_status == pending[r].status
           final_artifacts == pending[r].artifacts
       IN  /\ tasks' = update_store(tasks, req[r].id, final_status,
                            lg_stored_artifacts(final_status.state, final_artifacts))
           /\ events' = [events EXCEPT ![r] =
                    @ \o (IF final_status.state = COMPLETED
                          THEN [i \in 1..Len(final_artifacts) |->
                                    ArtifactEvent(final_artifacts[i])]
                          ELSE <<>>)
                      \o <<StatusEvent(final_status, TRUE)>>]
    /\ pc' = [pc EXCEPT ![r] = "done"]
    /\ UNCHANGED <<poolvars, agentvars>>
    /\ UNCHANGED <<manager, req, seen, pending, response>>
    /\ transitions' = [transitions EXCEPT ![r] = Append(@, pending[r].status.state)]

TMNext ==
    \E r \in Runs :
        \/ RejectIncompatible(r)
        \/ on_send_task_upsert(r)
        \/ on_send_task_subscribe(r)
        \/ stream_generator_start(r)
        \/ adk_on_send_task_run(r)
        \/ adk_stream_next(r)
        \/ adk_stream_runner_raises(r)
        \/ adk_stream_ends(r)
        \/ adk_stream_store(r)
        \/ adk_stream_raises(r)
        \/ adk_stream_except_store(r)
        \/ lg_on_send_task_run(r)
        \/ lg_stream_chunk(r)
        \/ lg_stream_final(r)
        \/ lg_stream_ends(r)
        \/ lg_stream_raises(r)
        \/ lg_stream_finally(r)

(***************************************************************************)
(* Tool functions of the pooled layer: summarize_video, combine_summaries  *)
(* (ADK agent) and get_channel_videos, get_playlist_videos (LangGraph      *)
(* agent)                                                                   *)
(***************************************************************************)
\* Python values a call_tool may return, represented like decoded JSON
\* values; the items of a dict alternate key and value.
PyNone == JValue("lit", S_null, <<>>)

PyDict(items) == JValue("obj", <<>>, items)

\* isinstance(v, dict) and key in v
dict_has(v, key) ==
    v.t = "obj" /\ \E i \in 1..(Len(v.items) \div 2) : v.items[2 * i - 1] = key

\* v[key]
dict_get(v, key) ==
    v.items[2 * (CHOOSE i \in 1..(Len(v.items) \div 2) : v.items[2 * i - 1] = key)]

RECURSIVE py_repr(_), py_repr_items(_, _)

\* repr(v); strings are taken without backslashes and control characters.
py_repr(v) ==
    IF v.t = "str"
    THEN IF (\E i \in 1..Len(v.s) : v.s[i] = "'") /\ ~(\E i \in 1..Len(v.s) : v.s[i] = "\"")
         THEN <<"\"">> \o v.s \o <<"\"">>
         ELSE <<"'">> \o v.s \o <<"'">>
    ELSE IF v.t = "arr" THEN <<"[">> \o py_repr_items(v.items, FALSE) \o <<"]">>
    ELSE IF v.t = "obj" THEN <<"{">> \o py_repr_items(v.items, TRUE) \o <<"}">>
    ELSE IF v.t = "num" THEN v.s
    ELSE IF v.s = S_null THEN <<"N","o","n","e">>
    ELSE IF v.s = S_true THEN <<"T","r","u","e">>
    ELSE <<"F","a","l","s","e">>

\* The items of a list, or the key: value pairs of a dict, joined by ", ".
py_repr_items(items, pairs) ==
    IF items = <<>> THEN <<>>
    ELSE IF pairs
         THEN <<"'">> \o items[1] \o <<"'", ":", " ">> \o py_repr(items[2])
                \o (IF Len(items) > 2 THEN <<",", " ">> ELSE <<>>)
                \o py_repr_items(SubSeq(items, 3, Len(items)), TRUE)
         ELSE py_repr(items[1])
                \o (IF Len(items) > 1 THEN <<",", " ">> ELSE <<>>)
                \o py_repr_items(Tail(items), FALSE)

\* str(v)
py_str(v) == IF v.t = "str" THEN v.s ELSE py_repr(v)

\* [str(x) for x in v]
py_str_list(v) == [i \in 1..Len(v.items) |-> py_str(v.items[i])]

\* Per tool function: the MCP tool name, the key of the result, and the
\* prefixes of its error texts.
ToolTexts ==
    [
     summarize_video |->
        [name |->
            <<"g","e","t","_","y","o","u","t","u","b","e","_","v","i","d","e",
              "o","_","s","u","m","m","a","r","y">>,
         key |->
            <<"s","u","m","m","a","r","y">>,
         error_from |->
            <<"E","r","r","o","r"," ","f","r","o","m"," ","s","u","m","m","a",
              "r","i","z","e","_","v","i","d","e","o",":"," ">>,
         contacting |->
            <<"E","r","r","o","r"," ","c","o","n","t","a","c","t","i","n","g",
              " ","s","u","m","m","a","r","i","z","a","t","i","o","n"," ","s",
              "e","r","v","i","c","e",":"," ">>],
     combine_summaries |->
        [name |->
            <<"g","e","n","e","r","a","t","e","_","f","i","n","a","l","_","s",
              "u","m","m","a","r","y">>,
         key |->
            <<"f","i","n","a","l","_","s","u","m","m","a","r","y">>,
         error_from |->
            <<"E","r","r","o","r"," ","f","r","o","m"," ","c","o","m","b","i",
              "n","e","_","s","u","m","m","a","r","i","e","s",":"," ">>,
         contacting |->
            <<"E","r","r","o","r"," ","c","o","n","t","a","c","t","i","n","g",
              " ","f","i","n","a","l"," ","s","u","m","m","a","r","y"," ","s",
              "e","r","v","i","c","e",":"," ">>],
     get_channel_videos |->
        [name |->
            <<"g","e","t","_","y","o","u","t","u","b","e","_","v","i","d","e",
              "o","s","_","f","o","r","_","c","h","a","n","n","e","l","_","d",
              "a","t","e">>,
         key |->
            <<"v","i","d","e","o","_","u","r","l","s">>,
         error_from |->
            <<"E","r","r","o","r"," ","f","r","o","m"," ","g","e","t","_","c",
              "h","a","n","n","e","l","_","v","i","d","e","o","s",":"," ">>,
         contacting |->
            <<"E","r","r","o","r"," ","c","o","n","t","a","c","t","i","n","g",
              " ","v","i","d","e","o"," ","f","i","n","d","i","n","g"," ","s",
              "e","r","v","i","c","e",":"," ">>],
     get_playlist_videos |->
        [name |->
            <<"g","e","t","_","p","l","a","y","l","i","s","t","_","v","i","d",
              "e","o","s">>,
         key |->
            <<"v","i","d","e","o","_","u","r","l","s">>,
         error_from |->
            <<"E","r","r","o","r"," ","f","r","o","m"," ","g","e","t","_","p",
              "l","a","y","l","i","s","t","_","v","i","d","e","o","s",":"," ">>,
         contacting |->
            <<"E","r","r","o","r"," ","c","o","n","t","a","c","t","i","n","g",
              " ","p","l","a","y","l","i","s","t"," ","s","e","r","v","i","c",
              "e",":"," ">>]
    ]

S_error ==
    <<"e","r","r","o","r">>

S_UnexpectedResultFormat ==
    <<"E","r","r","o","r",":"," ","U","n","e","x","p","e","c","t","e",
      "d"," ","r","e","s","u","l","t"," ","f","o","r","m","a","t"," ",
      "f","r","o","m"," ">>

S_CombinedNoText ==
    <<"S","u","c","c","e","s","s","f","u","l","l","y"," ","c","o","m",
      "b","i","n","e","d"," ","s","u","m","m","a","r","i","e","s"," ",
      "(","n","o"," ","t","e","x","t"," ","r","e","t","u","r","n","e",
      "d",")",".">>

\* summarize_video: the value returned for a result of call_tool.
summarize_video_result(result) ==
    IF dict_has(result, ToolTexts.summarize_video.key)
    THEN py_str(dict_get(result, ToolTexts.summarize_video.key))
    ELSE IF dict_has(result, S_error)
         THEN ToolTexts.summarize_video.error_from \o py_str(dict_get(result, S_error))
    ELSE S_UnexpectedResultFormat \o ToolTexts.summarize_video.name

\* combine_summaries: the value returned for a result of call_tool.
combine_summaries_result(result) ==
    IF dict_has(result, ToolTexts.combine_summaries.key)
    THEN py_str(dict_get(result, ToolTexts.combine_summaries.key))
    ELSE IF dict_has(result, S_error)
         THEN ToolTexts.combine_summaries.error_from \o py_str(dict_get(result, S_error))
    ELSE IF result.t = "str" THEN result.s
    ELSE IF result = PyDict(<<>>) THEN S_CombinedNoText
    ELSE S_UnexpectedResultFormat \o ToolTexts.combine_summaries.name

\* get_channel_videos: the list returned for a result of call_tool (str()
\* of the values modelled here does not raise, so the bare except is dead).
get_channel_videos_result(result) ==
    IF dict_has(result, ToolTexts.get_channel_videos.key)
            /\ dict_get(result, ToolTexts.get_channel_videos.key).t = "arr"
    THEN py_str_list(dict_get(result, ToolTexts.get_channel_videos.key))
    ELSE IF dict_has(result, S_error)
         THEN <<ToolTexts.get_channel_videos.error_from
                    \o py_str(dict_get(result, S_error))>>
    ELSE IF result = PyNone THEN <<>>
    ELSE <<py_str(result)>>

\* get_playlist_videos: the list returned for a result of call_tool.
get_playlist_videos_result(result) ==
    IF dict_has(result, ToolTexts.get_playlist_videos.key)
            /\ dict_get(result, ToolTexts.get_playlist_videos.key).t = "arr"
    THEN py_str_list(dict_get(result, ToolTexts.get_playlist_videos.key))
    ELSE IF dict_has(result, S_error)
         THEN <<ToolTexts.get_playlist_videos.error_from
                    \o py_str(dict_get(result, S_error))>>
    ELSE IF result = PyNone THEN <<>>
    ELSE IF result.t = "arr" THEN py_str_list(result)
    ELSE <<py_str(result)>>

\* An except clause that names no exception.
tool_except_anonymous(tool, exc) ==
    IF tool \in {"summarize_video", "combine_summaries"}
    THEN ToolTexts[tool].contacting
    ELSE <<ToolTexts[tool].contacting>>

\* The except clause of a tool function: the text naming type(e).__name__,
\* in a list for the tools that return lists.
tool_except_result(tool, exc) ==
    IF tool \in {"summarize_video", "combine_summaries"}
    THEN ToolTexts[tool].contacting \o exc
    ELSE <<ToolTexts[tool].contacting \o exc>>

\* What "await session.call_tool(...)" ends with: a result, or an exception.
CallOutcome(result, exc) == [result |-> result, exc |-> exc]

NoOutcome == CallOutcome(PyNone, None)

\* Results of call_tool for a tool whose result key is key: keyed
\* structures with the key, with the key and an error, with an error
\* only, and empty; a bare string, a bare list, and None.
ToolResults(key) ==
    LET S1 == JString(<<"S", "1">>)
        boom == JString(<<"b", "o", "o", "m">>)
        videos == JArray(<<JString(<<"v", "1">>), JString(<<"v", "2">>)>>)
    IN  {PyDict(<<key, S1>>), PyDict(<<key, videos>>),
         PyDict(<<key, S1, S_error, boom>>), PyDict(<<S_error, boom>>),
         PyDict(<<>>), S1, videos, PyNone}

CallOutcomes(tool) ==
    {CallOutcome(r, None) : r \in ToolResults(ToolTexts[tool].key)}
        \cup {CallOutcome(PyNone, Some(x)) : x \in ExceptionNames}

\* The tool function after call_tool ended: what it returns.
tool_result(tool, outcome) ==
    IF outcome.exc # None THEN tool_except_result(tool, outcome.exc[1])
    ELSE IF tool = "summarize_video" THEN summarize_video_result(outcome.result)
    ELSE IF tool = "combine_summaries" THEN combine_summaries_result(outcome.result)
    ELSE IF tool = "get_channel_videos" THEN get_channel_videos_result(outcome.result)
    ELSE get_playlist_videos_result(outcome.result)

(***************************************************************************)
(* MCP session pool: get_mcp_session / get_summary_mcp_session,            *)
(* release_mcp_session / release_summary_mcp_session, and the tool          *)
(* functions that borrow a session around one call_tool                     *)
(***************************************************************************)
Callers == {"c1", "c2", "c3"}

Endpoints == {"e1", "e2"}

MaxFailures == 2

\* asyncio.Queue(maxsize=1)
QueueMaxSize == 1

NoCaller == "none"

NoEndpoint == "none"

NoSession == 0

\* asyncio.Lock: who holds it and the waiters in arrival order.
Lock(owner, waiters) == [owner |-> owner, waiters |-> waiters]

\* A release that wakes no waiter.
lock_release_no_wakeup(l) == Lock(NoCaller, l.waiters)

\* Lock.release(): the first waiter is woken and is the next to hold the
\* lock; no later acquire() can take it first, since acquire() waits
\* whenever there are waiters.
lock_release(l) ==
    IF l.waiters = <<>> THEN Lock(NoCaller, <<>>)
    ELSE Lock(Head(l.waiters), Tail(l.waiters))

\* dict[key] = value and del dict[key]
DictSet(d, k, v) == [x \in DOMAIN d \cup {k} |-> IF x = k THEN v ELSE d[x]]

DictDel(d, k) == [x \in DOMAIN d \ {k} |-> d[x]]

\* A put that enqueues the session twice.
queue_put_twice(q, x) == Append(Append(q, x), x)

\* Queue.put(x) on a queue with room.
queue_put(q, x) == Append(q, x)

\* Reading the head of the queue without removing it.
queue_peek(q) == q

\* What Queue.get() leaves on the queue (it returns the head).
queue_get(q) == Tail(q)

CallerState(p, ep, session) == [pc |-> p, endpoint |-> ep, session |-> session]

\* The tool function that uses an endpoint: each reads its own environment
\* variable (MCP_URL_SUMMARIZE, MCP_URL_COMBINE in the ADK agent,
\* MCP_URL_GET_CHANNEL, MCP_URL_GET_PLAYLIST in the LangGraph agent).
tool_of(m, ep) ==
    IF m = "adk"
    THEN IF ep = "e1" THEN "summarize_video" ELSE "combine_summaries"
    ELSE IF ep = "e1" THEN "get_channel_videos" ELSE "get_playlist_videos"

\* A tool function ending: the endpoint and session it used, how call_tool
\* ended, and the value it returns, or the exception that leaves it.
ToolReturn(c, ep, session, outcome, value, raised) ==
    [caller |-> c, tool |-> tool_of(manager, ep), endpoint |-> ep,
     session |-> session, outcome |-> outcome, value |-> value,
     raised |-> raised]

\* The latest step ended no tool function.
NoReturn ==
    [caller |-> NoCaller, tool |-> "none", endpoint |-> NoEndpoint,
     session |-> NoSession, outcome |-> NoOutcome, value |-> <<>>,
     raised |-> None]

PoolInit ==
    /\ tool_return = NoReturn
    /\ mcp_session_locks = <<>>
    /\ mcp_sessions = <<>>
    /\ mcp_stacks = {}
    /\ caller = [c \in Callers |-> CallerState("idle", NoEndpoint, NoSession)]
    /\ create_calls = [ep \in Endpoints |-> 0]
    /\ create_failures = [ep \in Endpoints |-> 0]
    /\ sessions_created = [ep \in Endpoints |-> 0]

\* A check that also initializes an endpoint whose session is lent out.
needs_init_when_empty(sessions, ep) ==
    ep \notin DOMAIN sessions \/ sessions[ep] = <<>>

\* The locked section without its "not in _mcp_sessions" check.
needs_init_always(sessions, ep) == TRUE

\* The endpoint has no queue yet: the caller inside the lock initializes it.
needs_init(sessions, ep) == ep \notin DOMAIN sessions

\* get_mcp_session inside "async with lock", up to its first suspension;
\* locks is the lock table with the lock of ep held by c.
locked_section(c, ep, locks) ==
    IF needs_init(mcp_sessions, ep)
    THEN \* new queue and stack, then "await session_manager.create_session()"
         /\ mcp_sessions' = DictSet(mcp_sessions, ep, <<>>)
         /\ mcp_stacks' = mcp_stacks \cup {ep}
         /\ create_calls' = [create_calls EXCEPT ![ep] = @ + 1]
         /\ mcp_session_locks' = locks
         /\ caller' = [caller EXCEPT ![c] = CallerState("creating", ep, NoSession)]
         /\ UNCHANGED <<create_failures, sessions_created>>
    ELSE IF mcp_sessions[ep] # <<>>
         THEN \* "await queue.get()" returns at once; leaving the block
              \* releases the lock
              /\ mcp_sessions' = [mcp_sessions EXCEPT ![ep] = queue_get(@)]
              /\ mcp_session_locks' = [locks EXCEPT ![ep] = lock_release(@)]
              /\ caller' = [caller EXCEPT ![c] =
                                CallerState("holding", ep, Head(mcp_sessions[ep]))]
              /\ UNCHANGED <<mcp_stacks, create_calls, create_failures, sessions_created>>
         ELSE \* "await queue.get()" suspends, the lock still held
              /\ mcp_session_locks' = locks
              /\ caller' = [caller EXCEPT ![c] = CallerState("getting", ep, NoSession)]
              /\ UNCHANGED <<mcp_sessions, mcp_stacks, create_calls,
                             create_failures, sessions_created>>

\* A tool function calls get_mcp_session(endpoint): the lock is created if
\* missing and taken if free, otherwise the caller waits for it.
get_mcp_session(c) ==
    /\ caller[c].pc = "idle"
    /\ \E ep \in Endpoints :
        LET locks == IF ep \in DOMAIN mcp_session_locks THEN mcp_session_locks
                     ELSE DictSet(mcp_session_locks, ep, Lock(NoCaller, <<>>))
        IN  IF locks[ep].owner = NoCaller /\ locks[ep].waiters = <<>>
            THEN locked_section(c, ep, [locks EXCEPT ![ep].owner = c])
            ELSE /\ mcp_session_locks' =
                        [locks EXCEPT ![ep].waiters = Append(@, c)]
                 /\ caller' = [caller EXCEPT ![c] =
                                    CallerState("wait_lock", ep, NoSession)]
                 /\ UNCHANGED <<mcp_sessions, mcp_stacks, create_calls,
                                create_failures, sessions_created>>
    /\ tool_return' = NoReturn
    /\ UNCHANGED <<tmvars, wf, agentvars>>

\* A waiter is woken with the lock and enters the locked section.
lock_acquired(c) ==
    /\ caller[c].pc = "wait_lock"
    /\ mcp_session_locks[caller[c].endpoint].owner = c
    /\ locked_section(c, caller[c].endpoint, mcp_session_locks)
    /\ tool_return' = NoReturn
    /\ UNCHANGED <<tmvars, wf, agentvars>>

\* create_session() returns: the session is put on the queue, the cleanup
\* is registered, the session is taken from the queue and returned.
create_session_returns(c) ==
    /\ caller[c].pc = "creating"
    /\ LET ep == caller[c].endpoint
           session == sessions_created[ep] + 1
           queue == queue_put(mcp_sessions[ep], session)
       IN  /\ sessions_created' = [sessions_created EXCEPT ![ep] = session]
           /\ IF Len(mcp_sessions[ep]) < QueueMaxSize
              THEN /\ mcp_sessions' = [mcp_sessions EXCEPT ![ep] = queue_get(queue)]
                   /\ caller' = [caller EXCEPT ![c] =
                                    CallerState("holding", ep, Head(queue))]
                   /\ mcp_session_locks' =
                            [mcp_session_locks EXCEPT ![ep] = lock_release(@)]
              ELSE \* "await queue.put(session)" suspends, the lock still held
                   /\ caller' = [caller EXCEPT ![c] =
                                    CallerState("init_putting", ep, session)]
                   /\ UNCHANGED <<mcp_sessions, mcp_session_locks>>
    /\ UNCHANGED <<mcp_stacks, create_calls, create_failures>>
    /\ tool_return' = NoReturn
    /\ UNCHANGED <<tmvars, wf, agentvars>>

\* create_session() raises: the except branch starts with
\* "await stack.aclose()".
create_session_raises(c) ==
    /\ caller[c].pc = "creating"
    /\ create_failures[caller[c].endpoint] < MaxFailures
    /\ create_failures' = [create_failures EXCEPT ![caller[c].endpoint] = @ + 1]
    /\ caller' = [caller EXCEPT ![c].pc = "rollback"]
    /\ UNCHANGED <<mcp_session_locks, mcp_sessions, mcp_stacks, create_calls,
                   sessions_created>>
    /\ tool_return' = NoReturn
    /\ UNCHANGED <<tmvars, wf, agentvars>>

\* The rest of the except branch: stack and queue are deleted, the
\* exception leaves get_mcp_session (and the tool function), the lock is
\* released.
create_session_rollback(c) ==
    /\ caller[c].pc = "rollback"
    /\ LET ep == caller[c].endpoint
       IN  /\ mcp_stacks' = mcp_stacks \ {ep}
           /\ mcp_sessions' = DictDel(mcp_sessions, ep)
           /\ mcp_session_locks' = [mcp_session_locks EXCEPT ![ep] = lock_release(@)]
    /\ caller' = [caller EXCEPT ![c] = CallerState("idle", NoEndpoint, NoSession)]
    /\ \E x \in ExceptionNames :
            tool_return' = ToolReturn(c, caller[c].endpoint, NoSession,
                                      NoOutcome, <<>>, Some(x))
    /\ UNCHANGED <<create_calls, create_failures, sessions_created>>
    /\ UNCHANGED <<tmvars, wf, agentvars>>

\* A caller suspended in "await queue.get()" is resumed with a session.
queue_get_resumes(c) ==
    /\ caller[c].pc = "getting"
    /\ LET ep == caller[c].endpoint
       IN  /\ mcp_sessions[ep] # <<>>
           /\ mcp_sessions' = [mcp_sessions EXCEPT ![ep] = queue_get(@)]
           /\ caller' = [caller EXCEPT ![c] =
                            CallerState("holding", ep, Head(mcp_sessions[ep]))]
           /\ mcp_session_locks' = [mcp_session_locks EXCEPT ![ep] = lock_release(@)]
    /\ UNCHANGED <<mcp_stacks, create_calls, create_failures, sessions_created>>
    /\ tool_return' = NoReturn
    /\ UNCHANGED <<tmvars, wf, agentvars>>

\* call_tool returns or raises and the tool function computes its value;
\* the finally clause calls release_mcp_session, which puts the session
\* back if the endpoint still has a queue; the tool function returns.
release_mcp_session(c) ==
    /\ caller[c].pc = "holding"
    /\ \E outcome \in CallOutcomes(tool_of(manager, caller[c].endpoint)) :
        LET ep == caller[c].endpoint
            returned == ToolReturn(c, ep, caller[c].session, outcome,
                                   tool_result(tool_of(manager, ep), outcome),
                                   None)
        IN  IF ep \in DOMAIN mcp_sessions
            THEN IF Len(mcp_sessions[ep]) < QueueMaxSize
                 THEN /\ mcp_sessions' =
                            [mcp_sessions EXCEPT ![ep] = queue_put(@, caller[c].session)]
                      /\ caller' = [caller EXCEPT ![c] =
                                        CallerState("idle", NoEndpoint, NoSession)]
                      /\ tool_return' = returned
                 ELSE \* "await queue.put()" suspends
                      /\ caller' = [caller EXCEPT ![c].pc = "putting"]
                      /\ tool_return' = NoReturn
                      /\ UNCHANGED mcp_sessions
            ELSE /\ caller' = [caller EXCEPT ![c] =
                                    CallerState("idle", NoEndpoint, NoSession)]
                 /\ tool_return' = returned
                 /\ UNCHANGED mcp_sessions
    /\ UNCHANGED <<mcp_session_locks, mcp_stacks, create_calls, create_failures,
                   sessions_created>>
    /\ UNCHANGED <<tmvars, wf, agentvars>>

\* The three tables of the pool.
PoolState(locks, sessions, stacks) ==
    [locks |-> locks, sessions |-> sessions, stacks |-> stacks]

\* _cleanup_mcp_session / _cleanup_summary_mcp_session on the tables: only
\* if the endpoint has an exit stack is the stack popped and closed (which
\* closes the connection), and the queue and the lock deleted.
cleanup_mcp_session_result(pool, ep) ==
    IF ep \in pool.stacks
    THEN PoolState(IF ep \in DOMAIN pool.locks THEN DictDel(pool.locks, ep)
                   ELSE pool.locks,
                   IF ep \in DOMAIN pool.sessions THEN DictDel(pool.sessions, ep)
                   ELSE pool.sessions,
                   pool.stacks \ {ep})
    ELSE pool

\* No tool call is in progress: the server has not started one or has
\* stopped.
NoToolCallRunning == \A c \in Callers : caller[c].pc \in {"idle", "exited"}

\* The process is ending (the finally clause of main, or an atexit
\* callback): asyncio.run(_cleanup_mcp_session(endpoint)) runs the cleanup
\* alone on a loop of its own; the server has stopped, no tool call starts
\* any more.
cleanup_mcp_session(ep) ==
    /\ NoToolCallRunning
    /\ LET after == cleanup_mcp_session_result(
                        PoolState(mcp_session_locks, mcp_sessions, mcp_stacks), ep)
       IN  /\ mcp_session_locks' = after.locks
           /\ mcp_sessions' = after.sessions
           /\ mcp_stacks' = after.stacks
    /\ caller' = [c \in Callers |-> CallerState("exited", NoEndpoint, NoSession)]
    /\ tool_return' = NoReturn
    /\ UNCHANGED <<create_calls, create_failures, sessions_created>>
    /\ UNCHANGED <<tmvars, wf, agentvars>>

\* The cleanup is scheduled on the running loop while fewer than this many
\* sessions have been established.
MaxSessions == 2

RECURSIVE SumOver(_, _)
SumOver(f, S) ==
    IF S = {} THEN 0
    ELSE LET x == CHOOSE y \in S : TRUE IN f[x] + SumOver(f, S \ {x})

\* The sessions established so far, over all endpoints.
SessionsEstablished == SumOver(sessions_created, Endpoints)

\* The position of a caller whose awaited queue or lock the cleanup removed
\* from the tables: no put, get or release reaches that object any more.
stranded(p) ==
    IF p = "getting" THEN "stranded_get"
    ELSE IF p = "wait_lock" THEN "stranded_lock"
    ELSE IF p = "putting" THEN "stranded_put"
    ELSE p

\* main, finally, when the loop is running: the cleanup is scheduled with
\* asyncio.ensure_future as one more task of the loop that runs the tool
\* calls.  It pops and closes the stack, which closes the connection of
\* every session of the endpoint, and deletes the queue and the lock; the
\* callers suspended on these objects keep waiting on them.  The step is
\* taken here while no caller is establishing the endpoint's connection and
\* the lock is free or held by a caller suspended in queue.get().
cleanup_mcp_session_scheduled(ep) ==
    /\ ep \in mcp_stacks
    /\ SessionsEstablished < MaxSessions
    /\ \A c \in Callers :
            caller[c].endpoint = ep =>
                caller[c].pc \in {"holding", "getting", "wait_lock", "putting"}
    /\ \A c \in Callers :
            (ep \in DOMAIN mcp_session_locks /\ mcp_session_locks[ep].owner = c)
                => caller[c].pc = "getting"
    /\ LET after == cleanup_mcp_session_result(
                        PoolState(mcp_session_locks, mcp_sessions, mcp_stacks), ep)
       IN  /\ mcp_session_locks' = after.locks
           /\ mcp_sessions' = after.sessions
           /\ mcp_stacks' = after.stacks
    /\ caller' = [c \in Callers |->
                    IF caller[c].endpoint = ep
                    THEN [caller[c] EXCEPT !.pc = stranded(@)]
                    ELSE caller[c]]
    /\ tool_return' = NoReturn
    /\ UNCHANGED <<create_calls, create_failures, sessions_created>>
    /\ UNCHANGED <<tmvars, wf, agentvars>>

\* A release suspended in "await queue.put()" is resumed once the queue has
\* room; the tool function returns.
queue_put_resumes(c) ==
    /\ caller[c].pc = "putting"
    /\ Len(mcp_sessions[caller[c].endpoint]) < QueueMaxSize
    /\ \E outcome \in CallOutcomes(tool_of(manager, caller[c].endpoint)) :
        LET ep == caller[c].endpoint
        IN  /\ mcp_sessions' =
                    [mcp_sessions EXCEPT ![ep] = queue_put(@, caller[c].session)]
            /\ tool_return' = ToolReturn(c, ep, caller[c].session, outcome,
                                   tool_result(tool_of(manager, ep), outcome), None)
    /\ caller' = [caller EXCEPT ![c] = CallerState("idle", NoEndpoint, NoSession)]
    /\ UNCHANGED <<mcp_session_locks, mcp_stacks, create_calls, create_failures,
                   sessions_created>>
    /\ UNCHANGED <<tmvars, wf, agentvars>>

PoolNext ==
    \E c \in Callers :
        \/ get_mcp_session(c)
        \/ lock_acquired(c)
        \/ create_session_returns(c)
        \/ create_session_raises(c)
        \/ create_session_rollback(c)
        \/ queue_get_resumes(c)
        \/ release_mcp_session(c)

(***************************************************************************)
(* find_videos_via_a2a (ADK agent): one send_task to the YouTube agent and  *)
(* the reading of its reply                                              *)
(***************************************************************************)
S_NoValidVideoList ==
    <<"E","r","r","o","r",":"," ","Y","o","u","T","u","b","e"," ","a","g","e","n","t"," ","r","e","t","u","r","n","e","d"," ","n","o"," ","v","a","l","i","d"," ","v","i","d","e","o"," ","l","i","s","t",".">>

S_TaskFailed ==
    <<"E","r","r","o","r",":"," ","Y","o","u","T","u","b","e"," ","a","g","e","n","t"," ","t","a","s","k"," ","f","a","i","l","e","d",":"," ">>

S_UnknownReason ==
    <<"U","n","k","n","o","w","n"," ","r","e","a","s","o","n">>

S_UnexpectedState ==
    <<"E","r","r","o","r",":"," ","U","n","e","x","p","e","c","t","e","d"," ","r","e","s","p","o","n","s","e"," ","s","t","a","t","e"," ","f","r","o","m"," ","Y","o","u","T","u","b","e"," ","a","g","e","n","t",":"," ">>

S_FailedToCommunicate ==
    <<"E","r","r","o","r",":"," ","F","a","i","l","e","d"," ","t","o"," ","c","o","m","m","u","n","i","c","a","t","e"," ","w","i","t","h"," ","Y","o","u","T","u","b","e"," ","a","g","e","n","t"," ","-"," ">>

S_IndexError ==
    <<"I","n","d","e","x","E","r","r","o","r">>

S_AttributeError ==
    <<"A","t","t","r","i","b","u","t","e","E","r","r","o","r">>


\* TextPart(text=t), DataPart(data=d), FilePart(...) as the client reads
\* them: part.type, part.text, part.data.
TextPart(t) == [type |-> "text", text |-> t, data |-> PyNone]

DataPart(d) == [type |-> "data", text |-> <<>>, data |-> d]

FilePart == [type |-> "file", text |-> <<>>, data |-> PyNone]

\* What "await a2a_client.send_task(...)" gives: an exception, or a
\* response whose result has status.state, status.message (None or a
\* Message with parts) and artifacts (each a list of parts).
PeerResponse(raised, state, message, artifacts) ==
    [raised |-> raised, state |-> state, message |-> message,
     artifacts |-> artifacts]

\* The except branch: the exception's type name in a failure text.
a2a_except_result(exc) == <<S_FailedToCommunicate \o exc \o <<".">>>>

\* The parts of all artifacts in the order the two nested loops visit them.
RECURSIVE artifact_parts(_)
artifact_parts(artifacts) ==
    IF artifacts = <<>> THEN <<>>
    ELSE Head(artifacts) \o artifact_parts(Tail(artifacts))

RECURSIVE scan_parts(_, _), text_part_result(_, _, _)
\* The loops of the COMPLETED branch from part i on: the first data part
\* holding a list, or text part holding a JSON list, gives the list with
\* str() applied to each item; a text part that is not JSON and begins with
\* "Error:" gives itself; when the loops end the failure "no valid video
\* list" is returned.
scan_parts(parts, i) ==
    IF i > Len(parts) THEN <<S_NoValidVideoList>>
    ELSE IF parts[i].type = "data"
         THEN IF parts[i].data.t = "arr" THEN py_str_list(parts[i].data)
              ELSE scan_parts(parts, i + 1)
    ELSE IF parts[i].type = "text"
         THEN text_part_result(parts, i, json_loads(parts[i].text))
    ELSE scan_parts(parts, i + 1)

\* A text part, loaded being what json.loads(part.text) gave.
text_part_result(parts, i, loaded) ==
    IF loaded.ok
    THEN IF loaded.v.t = "arr" THEN py_str_list(loaded.v)
         ELSE scan_parts(parts, i + 1)
    ELSE IF StartsWith(parts[i].text, S_Error) THEN <<parts[i].text>>
    ELSE scan_parts(parts, i + 1)

\* The FAILED branch: "status.message.parts[0].text if status.message else
\* 'Unknown reason'"; parts[0] of an empty list raises IndexError and .text
\* of a part that has none raises AttributeError, which the except branch
\* of the function catches.
failed_result(message) ==
    IF message = None THEN <<S_TaskFailed \o S_UnknownReason>>
    ELSE IF message[1] = <<>> THEN a2a_except_result(S_IndexError)
    ELSE IF message[1][1].type # "text" THEN a2a_except_result(S_AttributeError)
    ELSE <<S_TaskFailed \o message[1][1].text>>

\* The text of a task state in the "unexpected state" failure (TaskState is
\* a str enum, formatted here by its value).
state_text(state) ==
    IF state = SUBMITTED THEN <<"s","u","b","m","i","t","t","e","d">>
    ELSE IF state = WORKING THEN <<"w","o","r","k","i","n","g">>
    ELSE IF state = COMPLETED THEN <<"c","o","m","p","l","e","t","e","d">>
    ELSE <<"f","a","i","l","e","d">>

\* What find_videos_via_a2a returns for what send_task gave.
find_videos_result(reply) ==
    IF reply.raised # None THEN a2a_except_result(reply.raised[1])
    ELSE IF reply.state = COMPLETED /\ reply.artifacts # <<>>
         THEN scan_parts(artifact_parts(reply.artifacts), 1)
    ELSE IF reply.state = FAILED THEN failed_result(reply.message)
    ELSE <<S_UnexpectedState \o state_text(reply.state)>>

PeerStates == {SUBMITTED, WORKING, COMPLETED, FAILED}

PeerMessages ==
    {None, Some(<<>>), Some(<<TextPart(<<"b", "o", "o", "m">>)>>),
     Some(<<DataPart(PyDict(<<>>))>>)}

\* The values a peer's list is built from: two identifiers, an error
\* marker, and a number.
ListValues ==
    {JString(<<"v", "1">>), JString(<<"v", "2">>), JString(S_Error \o <<" ", "x">>),
     JValue("num", <<"5">>, <<>>)}

\* The lists of at most MaxListLen values.
MaxListLen == 2

PeerLists ==
    {JArray(items) : items \in UNION {[1..n -> ListValues] : n \in 0..MaxListLen}}

PeerArtifacts ==
    LET ids == JArray(<<JString(<<"v", "1">>), JString(<<"v", "2">>)>>)
        other == JArray(<<JString(<<"v", "2">>)>>)
    IN  {<<>>,
         <<<<DataPart(PyDict(<<>>)), FilePart>>>>,
         <<<<TextPart(<<"{", "}">>)>>, <<TextPart(<<"h", "i">>), DataPart(ids)>>>>,
         <<<<TextPart(json_dumps(other)), DataPart(ids)>>>>,
         <<<<TextPart(S_Error \o <<" ", "x">>)>>, <<DataPart(ids)>>>>,
         <<<<TextPart(S_Error \o <<" ", "x">>)>>>>,
         <<<<TextPart(<<"h", "i">>)>>>>}
    \cup {<<<<DataPart(l)>>>> : l \in PeerLists}
    \cup {<<<<TextPart(json_dumps(l))>>>> : l \in PeerLists}

\* Replies by state: the artifacts are read of a COMPLETED reply only, the
\* status message of a FAILED reply only.
PeerResponses ==
    {PeerResponse(None, COMPLETED, None, artifacts) : artifacts \in PeerArtifacts}
    \cup {PeerResponse(None, FAILED, message, <<>>) : message \in PeerMessages}
    \cup {PeerResponse(None, state, None, <<>>) : state \in PeerStates \ {COMPLETED, FAILED}}
    \cup {PeerResponse(Some(x), "none", None, <<>>) : x \in ExceptionNames}

\* A tool call of the ADK agent runs find_videos_via_a2a from its send_task
\* to its return; the whole body is inside "try ... except Exception", so
\* it ends by a return.
find_videos_via_a2a(c) ==
    /\ manager = "adk"
    /\ caller[c].pc = "idle"
    /\ \E reply \in PeerResponses :
            tool_return' =
                [caller |-> c, tool |-> "find_videos_via_a2a",
                 endpoint |-> NoEndpoint, session |-> NoSession,
                 outcome |-> reply, value |-> find_videos_result(reply),
                 raised |-> None]
    /\ UNCHANGED <<mcp_session_locks, mcp_sessions, mcp_stacks, caller,
                   create_calls, create_failures, sessions_created>>
    /\ UNCHANGED <<tmvars, wf, agentvars>>

S_NoParsableVideoList ==
    <<"E","r","r","o","r",":"," ","Y","o","u","T","u","b","e"," ","a","g","e","n","t"," ","r","e","t","u","r","n","e","d"," ","n","o"," ","p","a","r","s","a","b","l","e"," ","v","i","d","e","o"," ","l","i","s","t",".">>

\* [str(item) for item in data], each item kept as a value.
str_items(v) == [i \in 1..Len(v.items) |-> JString(py_str(v.items[i]))]

\* A one-element list holding a failure text.
failure_list(texts) == [i \in 1..Len(texts) |-> JString(texts[i])]

RECURSIVE scan_parts_unpooled(_, _), text_part_unpooled(_, _, _)
\* The COMPLETED branch of the find_videos_via_a2a of the package without
\* the session pool: as scan_parts, but a JSON list of a text part whose
\* first item is a string beginning "Error:" is returned as decoded.
scan_parts_unpooled(parts, i) ==
    IF i > Len(parts) THEN <<JString(S_NoParsableVideoList)>>
    ELSE IF parts[i].type = "data"
         THEN IF parts[i].data.t = "arr" THEN str_items(parts[i].data)
              ELSE scan_parts_unpooled(parts, i + 1)
    ELSE IF parts[i].type = "text"
         THEN text_part_unpooled(parts, i, json_loads(parts[i].text))
    ELSE scan_parts_unpooled(parts, i + 1)

text_part_unpooled(parts, i, loaded) ==
    IF loaded.ok
    THEN IF loaded.v.t = "arr"
         THEN IF /\ loaded.v.items # <<>>
                 /\ loaded.v.items[1].t = "str"
                 /\ StartsWith(loaded.v.items[1].s, S_Error)
              THEN loaded.v.items
              ELSE str_items(loaded.v)
         ELSE scan_parts_unpooled(parts, i + 1)
    ELSE IF StartsWith(parts[i].text, S_Error) THEN <<JString(parts[i].text)>>
    ELSE scan_parts_unpooled(parts, i + 1)

\* What the find_videos_via_a2a of the package without the session pool
\* returns: a list of values (strings, unless the decoded list is returned).
find_videos_unpooled_result(reply) ==
    IF reply.raised # None THEN failure_list(a2a_except_result(reply.raised[1]))
    ELSE IF reply.state = COMPLETED /\ reply.artifacts # <<>>
         THEN scan_parts_unpooled(artifact_parts(reply.artifacts), 1)
    ELSE IF reply.state = FAILED THEN failure_list(failed_result(reply.message))
    ELSE <<JString(S_UnexpectedState \o state_text(reply.state))>>

\* The same tool call in the package without the session pool.
find_videos_via_a2a_unpooled(c) ==
    /\ manager = "adk"
    /\ caller[c].pc = "idle"
    /\ \E reply \in PeerResponses :
            tool_return' =
                [caller |-> c, tool |-> "find_videos_via_a2a_unpooled",
                 endpoint |-> NoEndpoint, session |-> NoSession,
                 outcome |-> reply, value |-> find_videos_unpooled_result(reply),
                 raised |-> None]
    /\ UNCHANGED <<mcp_session_locks, mcp_sessions, mcp_stacks, caller,
                   create_calls, create_failures, sessions_created>>
    /\ UNCHANGED <<tmvars, wf, agentvars>>

A2ANext ==
    \E c \in Callers :
        \/ find_videos_via_a2a(c)
        \/ find_videos_via_a2a_unpooled(c)

(***************************************************************************)
(* The workflow of SummaryAgent: the instruction the LlmAgent is given,     *)
(* carried out step by step with the three tools, and the task state the    *)
(* task manager derives from the final answer                               *)
(***************************************************************************)
S_NoVideosFound ==
    <<"N","o"," ","v","i","d","e","o","s"," ","w","e","r","e"," ","f","o","u","n","d"," ","f","o","r"," ","y","o","u","r"," ","c","r","i","t","e","r","i","a",".">>

S_CouldNotSummarize ==
    <<"I"," ","c","o","u","l","d"," ","n","o","t"," ","s","u","m","m","a","r","i","z","e"," ","a","n","y"," ","o","f"," ","t","h","e"," ","v","i","d","e","o","s",".">>

S_ProcessedNote ==
    <<"H","e","r","e"," ","i","s"," ","t","h","e"," ","c","o","m","b","i","n","e","d"," ","s","u","m","m","a","r","y"," ","f","o","r"," ","t","h","e"," ","v","i","d","e","o","s"," ","I"," ","c","o","u","l","d"," ","p","r","o","c","e","s","s",":"," ">>

S_FailedNote ==
    <<"N","o","t","e",":"," ","s","o","m","e"," ","v","i","d","e","o","s"," ","f","a","i","l","e","d"," ","t","o"," ","s","u","m","m","a","r","i","z","e","."," ">>


\* The most videos a discovery returns.
MaxVideos == 2

VideoIds == <<JString(<<"v", "1">>), JString(<<"v", "2">>), JString(<<"v", "3">>)>>

\* What send_task gives in a run of the workflow: a list of the first n
\* video ids, an error list, a FAILED task, an exception.
WorkflowReplies ==
    {PeerResponse(None, COMPLETED, None,
                  <<<<DataPart(JArray(SubSeq(VideoIds, 1, n)))>>>>) : n \in 0..MaxVideos}
    \cup {PeerResponse(None, COMPLETED, None,
                       <<<<DataPart(JArray(<<JString(S_Error \o <<" ", "x">>)>>))>>>>),
          PeerResponse(None, FAILED, Some(<<TextPart(<<"b", "o", "o", "m">>)>>), <<>>)}
    \cup {PeerResponse(Some(x), "none", None, <<>>) : x \in ExceptionNames}

\* One tool call of the run: the tool, its argument, and what it returned
\* (None when the tool function raised).
ToolCall(tool, arg, value) == [tool |-> tool, arg |-> arg, value |-> value]

Workflow(p, videos, next, summaries, noted, calls, combined, answer, raised, status, artifacts) ==
    [pc |-> p, videos |-> videos, next |-> next, summaries |-> summaries,
     noted |-> noted, calls |-> calls, combined |-> combined, answer |-> answer,
     raised |-> raised, status |-> status, artifacts |-> artifacts]

WorkflowStart ==
    Workflow("start", <<>>, 1, <<>>, <<>>, <<>>, None, None, None, NoStatus, <<>>)

\* "an error string (starts with 'Error:')"
is_error_string(text) == StartsWith(text, S_Error)

\* Step 4: "the first element starts with 'Error:'".
is_error_list(videos) == videos # <<>> /\ is_error_string(videos[1])

\* A check that takes every non-empty list for video ids.
has_video_ids_unchecked(videos) == videos # <<>>

\* Step 6: "the list contains valid video IDs".
has_video_ids(videos) == videos # <<>> /\ ~is_error_list(videos)

\* Step 2: find_videos_via_a2a is called with the user's query.
wf_find_videos ==
    /\ manager = "adk"
    /\ wf.pc = "start"
    /\ \E reply \in WorkflowReplies :
        LET videos == find_videos_result(reply)
        IN  wf' = [wf EXCEPT !.pc = "discovered", !.videos = videos,
                             !.calls = Append(@, ToolCall("find_videos_via_a2a",
                                                          <<>>, Some(videos)))]
    /\ UNCHANGED <<mcp_session_locks, mcp_sessions, mcp_stacks, caller,
                   create_calls, create_failures, sessions_created, tool_return>>
    /\ UNCHANGED <<tmvars, agentvars>>

\* Steps 4 and 5: the tool's error is reported to the user, or that no
\* videos were found; processing stops.
wf_stop_after_discovery ==
    /\ wf.pc = "discovered"
    /\ ~has_video_ids(wf.videos)
    /\ wf' = [wf EXCEPT !.pc = "answered",
                        !.answer = IF is_error_list(wf.videos)
                                   THEN Some(wf.videos[1])
                                   ELSE Some(S_NoVideosFound)]
    /\ UNCHANGED <<mcp_session_locks, mcp_sessions, mcp_stacks, caller,
                   create_calls, create_failures, sessions_created, tool_return>>
    /\ UNCHANGED <<tmvars, agentvars>>

\* Step 6c: summarize_video is called with the next video id; an error
\* string is noted, anything else is appended to the summaries.
wf_summarize_video ==
    /\ wf.pc = "discovered"
    /\ has_video_ids(wf.videos)
    /\ wf.next <= Len(wf.videos)
    /\ \E outcome \in CallOutcomes("summarize_video") :
        LET value == tool_result("summarize_video", outcome)
            called == ToolCall("summarize_video", wf.videos[wf.next], Some(value))
        IN  wf' = [wf EXCEPT !.next = @ + 1,
                             !.calls = Append(@, called),
                             !.noted = IF is_error_string(value)
                                       THEN Append(@, value) ELSE @,
                             !.summaries = IF is_error_string(value)
                                           THEN @ ELSE Append(@, value)]
    /\ UNCHANGED <<mcp_session_locks, mcp_sessions, mcp_stacks, caller,
                   create_calls, create_failures, sessions_created, tool_return>>
    /\ UNCHANGED <<tmvars, agentvars>>

\* Step 6d ii: with valid summaries collected, combine_summaries is called
\* with them.
wf_combine_summaries ==
    /\ wf.pc = "discovered"
    /\ has_video_ids(wf.videos)
    /\ wf.next > Len(wf.videos)
    /\ wf.summaries # <<>>
    /\ \E outcome \in CallOutcomes("combine_summaries") :
        LET value == tool_result("combine_summaries", outcome)
        IN  wf' = [wf EXCEPT !.pc = "combined", !.combined = Some(value),
                             !.calls = Append(@, ToolCall("combine_summaries",
                                                          wf.summaries, Some(value)))]
    /\ UNCHANGED <<mcp_session_locks, mcp_sessions, mcp_stacks, caller,
                   create_calls, create_failures, sessions_created, tool_return>>
    /\ UNCHANGED <<tmvars, agentvars>>

\* The tool function that is called next (summarize_video or
\* combine_summaries) raises: its acquire stands outside its try. The
\* exception ends the run of the agent.
wf_tool_raises ==
    /\ wf.pc = "discovered"
    /\ has_video_ids(wf.videos)
    /\ wf.next <= Len(wf.videos) \/ wf.summaries # <<>>
    /\ \E x \in ExceptionNames :
        LET called == IF wf.next <= Len(wf.videos)
                      THEN ToolCall("summarize_video", wf.videos[wf.next], None)
                      ELSE ToolCall("combine_summaries", wf.summaries, None)
        IN  wf' = [wf EXCEPT !.pc = "raised", !.raised = Some(x),
                             !.calls = Append(@, called)]
    /\ UNCHANGED <<mcp_session_locks, mcp_sessions, mcp_stacks, caller,
                   create_calls, create_failures, sessions_created, tool_return>>
    /\ UNCHANGED <<tmvars, agentvars>>

\* What the agent may tell the user when no valid summary was collected:
\* an error it noted, or words of its own.
AllFailedAnswers(noted) ==
    {S_CouldNotSummarize} \cup {noted[i] : i \in 1..Len(noted)}

\* Step 6d i: no valid summaries; the user is informed of the failures.
wf_no_valid_summaries ==
    /\ wf.pc = "discovered"
    /\ has_video_ids(wf.videos)
    /\ wf.next > Len(wf.videos)
    /\ wf.summaries = <<>>
    /\ \E text \in AllFailedAnswers(wf.noted) :
            wf' = [wf EXCEPT !.pc = "answered", !.answer = Some(text)]
    /\ UNCHANGED <<mcp_session_locks, mcp_sessions, mcp_stacks, caller,
                   create_calls, create_failures, sessions_created, tool_return>>
    /\ UNCHANGED <<tmvars, agentvars>>

\* What the agent may return with the combined summary: the summary only,
\* or the summary after a brief note when some videos failed.
CombinedAnswers(combined, noted) ==
    IF is_error_string(combined) \/ noted = <<>> THEN {combined}
    ELSE {combined, S_ProcessedNote \o combined, S_FailedNote \o combined}

\* Steps 6d iii and iv: an error string of combine_summaries is reported,
\* the combined summary is returned.
wf_final_answer ==
    /\ wf.pc = "combined"
    /\ \E text \in CombinedAnswers(wf.combined[1], wf.noted) :
            wf' = [wf EXCEPT !.pc = "answered", !.answer = Some(text)]
    /\ UNCHANGED <<mcp_session_locks, mcp_sessions, mcp_stacks, caller,
                   create_calls, create_failures, sessions_created, tool_return>>
    /\ UNCHANGED <<tmvars, agentvars>>

\* The terminal status and artifacts of the task: on_send_task applies
\* adk_send_result to what SummaryAgent.invoke returns, _stream_generator
\* applies adk_stream_step to the last item of SummaryAgent.stream.
workflow_task(mode, answer, raised) ==
    IF mode = "send"
    THEN adk_send_result(IF raised # None THEN invoke_raised(raised[1])
                         ELSE invoke_events(<<RunnerEvent(TRUE, None, answer[1])>>))
    ELSE LET step == adk_stream_step(
                        IF raised # None THEN stream_raised_item(raised[1])
                        ELSE stream_item(RunnerEvent(TRUE, None, answer[1])))
         IN  [status |-> step.final_status, artifacts |-> step.final_artifacts]

\* The run of the agent has ended and the task manager stores the task's
\* terminal status and artifacts.
wf_task_ends ==
    /\ wf.pc \in {"answered", "raised"}
    /\ \E mode \in {"send", "subscribe"} :
        LET task == workflow_task(mode, wf.answer, wf.raised)
        IN  wf' = [wf EXCEPT !.pc = "done", !.status = task.status,
                             !.artifacts = task.artifacts]
    /\ UNCHANGED <<mcp_session_locks, mcp_sessions, mcp_stacks, caller,
                   create_calls, create_failures, sessions_created, tool_return>>
    /\ UNCHANGED <<tmvars, agentvars>>

WorkflowNext ==
    \/ wf_find_videos
    \/ wf_stop_after_discovery
    \/ wf_summarize_video
    \/ wf_combine_summaries
    \/ wf_tool_raises
    \/ wf_no_valid_summaries
    \/ wf_final_answer
    \/ wf_task_ends

(***************************************************************************)
(* The tools module of the standalone agents: the lazily initialised       *)
(* MCPToolset (get_summary_mcp_tools, get_mcp_tools)                       *)
(***************************************************************************)
NoToolset == 0

NoTable == 0

\* The module's globals: _exit_stack and _mcp_toolset name a toolset
\* constructed so far, _tools names a loaded tool table.
ModuleGlobals(stack, toolset, tools) ==
    [exit_stack |-> stack, mcp_toolset |-> toolset, tools |-> tools]

\* An MCPToolset: whether its connection has been entered, and the
\* load_tools() calls it has answered.
Toolset(entered, loads) == [entered |-> entered, loads |-> loads]

\* A call of get_mcp_tools: where it is, the toolset its pending await is
\* on, whether that toolset was entered when load_tools() was called, and
\* the tool table it returned.
ToolsCaller(p, toolset, ready, tools) ==
    [pc |-> p, toolset |-> toolset, ready |-> ready, tools |-> tools]

RECURSIVE TablesLoaded(_)
TablesLoaded(ts) ==
    IF ts = <<>> THEN 0 ELSE Head(ts).loads + TablesLoaded(Tail(ts))

\* get_summary_mcp_tools / get_mcp_tools up to its first await: with _tools
\* set it returns the table; with _tools None it makes a new exit stack and
\* a new toolset, stores both in the globals and suspends in
\* enter_async_context.
get_mcp_tools(c) ==
    /\ tools_caller[c].pc = "idle"
    /\ IF module_globals.tools # NoTable
       THEN /\ tools_caller' = [tools_caller EXCEPT ![c] =
                    ToolsCaller("returned", NoToolset, FALSE, module_globals.tools)]
            /\ UNCHANGED <<module_globals, toolsets>>
       ELSE LET t == Len(toolsets) + 1
            IN  /\ toolsets' = Append(toolsets, Toolset(FALSE, 0))
                /\ module_globals' = ModuleGlobals(t, t, NoTable)
                /\ tools_caller' = [tools_caller EXCEPT ![c] =
                        ToolsCaller("entering", t, FALSE, NoTable)]
    /\ UNCHANGED <<tmvars, poolvars, agent_stream>>

\* "await _exit_stack.enter_async_context(_mcp_toolset)" returns: the
\* toolset passed to it is entered.  The next line calls load_tools() on
\* the toolset the global names now, and suspends.
enter_async_context_returns(c) ==
    /\ tools_caller[c].pc = "entering"
    /\ LET t == tools_caller[c].toolset
           g == module_globals.mcp_toolset
       IN  /\ toolsets' = [toolsets EXCEPT ![t].entered = TRUE]
           /\ tools_caller' = [tools_caller EXCEPT ![c] =
                    ToolsCaller("loading", g, toolsets'[g].entered, NoTable)]
    /\ UNCHANGED <<module_globals, agent_stream>>
    /\ UNCHANGED <<tmvars, poolvars>>

\* "await _mcp_toolset.load_tools()" returns: the new table is stored in
\* _tools and returned.
load_tools_returns(c) ==
    /\ tools_caller[c].pc = "loading"
    /\ LET g == tools_caller[c].toolset
           table == TablesLoaded(toolsets) + 1
       IN  /\ toolsets' = [toolsets EXCEPT ![g].loads = @ + 1]
           /\ module_globals' = [module_globals EXCEPT !.tools = table]
           /\ tools_caller' = [tools_caller EXCEPT ![c] =
                    ToolsCaller("returned", g, tools_caller[c].ready, table)]
    /\ UNCHANGED <<tmvars, poolvars, agent_stream>>

\* load_tools() called on a toolset whose connection was not entered yet
\* may raise instead; the exception leaves get_mcp_tools.
load_tools_raises(c) ==
    /\ tools_caller[c].pc = "loading"
    /\ ~tools_caller[c].ready
    /\ tools_caller' = [tools_caller EXCEPT ![c] =
            ToolsCaller("raised", tools_caller[c].toolset, FALSE, NoTable)]
    /\ UNCHANGED <<module_globals, toolsets, agent_stream>>
    /\ UNCHANGED <<tmvars, poolvars>>

ToolsNext ==
    \E c \in Callers :
        \/ get_mcp_tools(c)
        \/ enter_async_context_returns(c)
        \/ load_tools_returns(c)
        \/ load_tools_raises(c)

(***************************************************************************)
(* YouTubeVideoAgent.stream of the standalone LangGraph agent              *)
(***************************************************************************)
\* The chunks astream_log gives in one run of the graph.
MaxChunks == 2

\* The remote tool calls one run of the graph makes for a query.
MaxToolCalls == 1

\* An item yielded by stream().
StreamItem(complete, content) ==
    [is_task_complete |-> complete, require_user_input |-> FALSE,
     content |-> content]

\* A call of stream(): where it is, the tool calls one run of the graph
\* makes for its query, the items yielded so far, the runs of the graph
\* started and the remote tool calls made.
AgentStream(p, calls, items, runs, made) ==
    [pc |-> p, query_calls |-> calls, items |-> items, graph_runs |-> runs,
     tool_calls |-> made]

\* The content of the last message of a final state of the graph.
LastMessageContents == {json_dumps(l) : l \in PeerLists} \cup {T_Final}

\* stream() up to the first chunk: astream_log starts a run of the graph.
agent_stream_start(r) ==
    /\ agent_stream[r].pc = "idle"
    /\ \E calls \in 0..MaxToolCalls :
        agent_stream' = [agent_stream EXCEPT ![r] =
            AgentStream("astream_log", calls, <<>>, 1, 0)]
    /\ UNCHANGED <<module_globals, toolsets, tools_caller>>
    /\ UNCHANGED <<tmvars, poolvars>>

\* astream_log gives a chunk: a "Processing..." item is yielded.
astream_log_chunk(r) ==
    /\ agent_stream[r].pc = "astream_log"
    /\ Len(agent_stream[r].items) < MaxChunks
    /\ agent_stream' = [agent_stream EXCEPT ![r].items =
            Append(@, StreamItem(FALSE, S_Processing))]
    /\ UNCHANGED <<module_globals, toolsets, tools_caller>>
    /\ UNCHANGED <<tmvars, poolvars>>

\* astream_log is exhausted, its run of the graph is over; "await
\* self.graph.ainvoke(input_data, config=config)" starts a run of the graph
\* on the same input.
astream_log_ends(r) ==
    /\ agent_stream[r].pc = "astream_log"
    /\ agent_stream' = [agent_stream EXCEPT
            ![r].pc = "ainvoke",
            ![r].tool_calls = @ + agent_stream[r].query_calls,
            ![r].graph_runs = @ + 1]
    /\ UNCHANGED <<module_globals, toolsets, tools_caller>>
    /\ UNCHANGED <<tmvars, poolvars>>

\* The except and finally blocks: the error list as content of the one
\* complete item.
stream_except(s, exc, made) ==
    [s EXCEPT !.pc = "done",
              !.tool_calls = @ + made,
              !.items = Append(@, StreamItem(TRUE,
                            json_dumps_strings(<<invoke_raised(exc)>>)))]

\* The run of the graph under astream_log raises.
astream_log_raises(r) ==
    /\ agent_stream[r].pc = "astream_log"
    /\ \E exc \in ExceptionNames, made \in 0..agent_stream[r].query_calls :
        agent_stream' = [agent_stream EXCEPT ![r] = stream_except(@, exc, made)]
    /\ UNCHANGED <<module_globals, toolsets, tools_caller>>
    /\ UNCHANGED <<tmvars, poolvars>>

\* ainvoke returns a final state: the content of its last message, wrapped
\* in a list unless it is JSON, is the content of the complete item; a
\* final state without messages raises IndexError into the except block.
ainvoke_returns(r) ==
    /\ agent_stream[r].pc = "ainvoke"
    /\ \E last_message \in {Some(t) : t \in LastMessageContents} \cup {None} :
        agent_stream' = [agent_stream EXCEPT ![r] =
            IF last_message = None
            THEN stream_except(@, S_IndexError, agent_stream[r].query_calls)
            ELSE [@ EXCEPT !.pc = "done",
                           !.tool_calls = @ + agent_stream[r].query_calls,
                           !.items = Append(@, StreamItem(TRUE,
                                        graph_result(last_message[1])))]]
    /\ UNCHANGED <<module_globals, toolsets, tools_caller>>
    /\ UNCHANGED <<tmvars, poolvars>>

\* The run of the graph under ainvoke raises.
ainvoke_raises(r) ==
    /\ agent_stream[r].pc = "ainvoke"
    /\ \E exc \in ExceptionNames, made \in 0..agent_stream[r].query_calls :
        agent_stream' = [agent_stream EXCEPT ![r] = stream_except(@, exc, made)]
    /\ UNCHANGED <<module_globals, toolsets, tools_caller>>
    /\ UNCHANGED <<tmvars, poolvars>>

AgentStreamNext ==
    \E r \in Runs :
        \/ agent_stream_start(r)
        \/ astream_log_chunk(r)
        \/ astream_log_ends(r)
        \/ astream_log_raises(r)
        \/ ainvoke_returns(r)
        \/ ainvoke_raises(r)

AgentInit ==
    /\ module_globals = ModuleGlobals(NoToolset, NoToolset, NoTable)
    /\ toolsets = <<>>
    /\ tools_caller = [c \in Callers |-> ToolsCaller("idle", NoToolset, FALSE, NoTable)]
    /\ agent_stream = [r \in Runs |-> AgentStream("idle", 0, <<>>, 0, 0)]

Init == TMInit /\ PoolInit /\ wf = WorkflowStart /\ AgentInit

\* The task managers serving requests.
Spec == Init /\ [][TMNext]_vars

\* The session pool serving tool calls.
SpecPool == Init /\ [][PoolNext]_vars

PoolExitNext ==
    \/ PoolNext
    \/ \E ep \in Endpoints : cleanup_mcp_session(ep)

\* One run of the ADK agent's workflow, from the request to the stored task.
SpecWorkflow == Init /\ [][WorkflowNext]_vars

\* The ADK agent delegating the search for videos to the YouTube agent.
SpecA2A == Init /\ [][A2ANext]_vars

\* Concurrent calls of get_summary_mcp_tools / get_mcp_tools.
SpecTools == Init /\ [][ToolsNext]_vars

\* Calls of YouTubeVideoAgent.stream.
SpecAgentStream == Init /\ [][AgentStreamNext]_vars

\* The session pool serving tool calls until the process ends and cleans up.
SpecPoolExit == Init /\ [][PoolExitNext]_vars

\* The tool calls in flight on the loop when main schedules the cleanup.
TeardownCallers == {"c1", "c2"}

PoolTeardownNext ==
    \/ \E c \in TeardownCallers :
            \/ get_mcp_session(c)
            \/ lock_acquired(c)
            \/ create_session_returns(c)
            \/ create_session_raises(c)
            \/ create_session_rollback(c)
            \/ queue_get_resumes(c)
            \/ release_mcp_session(c)
            \/ queue_put_resumes(c)
    \/ \E ep \in Endpoints : cleanup_mcp_session_scheduled(ep)

\* The session pool serving tool calls while a cleanup may run on the same
\* loop.
SpecPoolTeardown == Init /\ [][PoolTeardownNext]_vars

\* One step of a tool call that is inside get_mcp_session or holds a
\* session: the event loop resumes every task that can run, create_session
\* returns or raises, and call_tool ends so that the finally clause releases.
pool_progress(c) ==
    \/ lock_acquired(c)
    \/ create_session_returns(c)
    \/ create_session_raises(c)
    \/ create_session_rollback(c)
    \/ queue_get_resumes(c)
    \/ release_mcp_session(c)

\* The session pool, every started tool call being scheduled and every
\* holder releasing.
FairSpecPool == SpecPool /\ \A c \in Callers : WF_vars(pool_progress(c))

\* The same with a cleanup on the loop: every started tool call is
\* scheduled whenever it can run.
FairSpecPoolTeardown ==
    SpecPoolTeardown
        /\ \A c \in Callers : WF_vars(pool_progress(c) \/ queue_put_resumes(c))

\* One step of a streaming run: _run_streaming_agent driving
\* _stream_generator, which the event loop schedules until it ends.
stream_run(r) ==
    \/ stream_generator_start(r)
    \/ adk_stream_next(r)
    \/ adk_stream_runner_raises(r)
    \/ adk_stream_ends(r)
    \/ adk_stream_store(r)
    \/ adk_stream_raises(r)
    \/ adk_stream_except_store(r)
    \/ lg_stream_chunk(r)
    \/ lg_stream_final(r)
    \/ lg_stream_ends(r)
    \/ lg_stream_raises(r)
    \/ lg_stream_finally(r)

\* The task managers, every started streaming run being scheduled until
\* its generator ends.
FairSpec == Spec /\ \A r \in Runs : WF_vars(stream_run(r))

(***************************************************************************)
(* Properties of the task managers                                          *)
(***************************************************************************)
\* The terminal states of the task lifecycle.
Terminal == {COMPLETED, FAILED}

Streaming(r) == req[r].mode = "subscribe" /\ req[r].compatible

OneShot(r) == req[r].mode = "send" /\ req[r].compatible

Ended(r) == pc[r] \in {"done", "crashed"}

IsFinalStatus(e) == e.kind = "status" /\ e.final

FinalEventsOf(r) == SelectSeq(events[r], IsFinalStatus)

\* The item SummaryAgent.stream yielded for a consumed runner event.
ItemOf(ev) ==
    IF ev = RunnerRaised THEN stream_raised_item(ev.err[1]) ELSE stream_item(ev)

\* lowercase(c) begins with "error:" or contains "failed".
Marked(c) ==
    LET l == Lower(c)
    IN  \/ Len(l) >= 6 /\ SubSeq(l, 1, 6) = <<"e", "r", "r", "o", "r", ":">>
        \/ \E i \in 1..(Len(l) - 5) :
                SubSeq(l, i, i + 5) = <<"f", "a", "i", "l", "e", "d">>

\* The text a terminal task carries: its newest artifact (COMPLETED) or its
\* status message (FAILED).
TerminalText(status, artifacts) ==
    IF status.state = COMPLETED THEN artifacts[Len(artifacts)].text
    ELSE status.message[1]

\* C1: in every streaming run whose generator reaches the agent's stream,
\* whatever the stream yields and wherever it raises, at most one status
\* event is flagged final, no status event follows it, and a run that has
\* ended performed exactly one transition, to COMPLETED or FAILED.
C1_TerminalOnce ==
    \A r \in Runs : Streaming(r) /\ req[r].hasParts =>
        /\ Len(FinalEventsOf(r)) <= 1
        /\ \A i \in 1..Len(events[r]) : IsFinalStatus(events[r][i]) =>
                \A j \in (i + 1)..Len(events[r]) : events[r][j].kind # "status"
        /\ Ended(r) => /\ Len(transitions[r]) = 1
                       /\ transitions[r][1] \in Terminal

\* C2: once the stored state of a task id is COMPLETED or FAILED, no step
\* of any handler changes it.
C2_TerminalIsFinal ==
    [][\A id \in DOMAIN tasks :
            tasks[id].status.state \in Terminal =>
                tasks'[id].status.state = tasks[id].status.state]_vars

\* C3: a stored task in a terminal state has an artifact exactly when the
\* state is COMPLETED, and a FAILED task has a status message.
C3_ArtifactIffCompleted ==
    \A id \in DOMAIN tasks :
        tasks[id].status.state \in Terminal =>
            /\ (tasks[id].artifacts # <<>>) <=> (tasks[id].status.state = COMPLETED)
            /\ tasks[id].status.state = FAILED => tasks[id].status.message # None

\* C4: every artifact of a COMPLETED task is a non-empty text or
\* a non-empty data list, and a FAILED task has a status message.
C4_NonEmptyArtifact ==
    \A id \in DOMAIN tasks :
        /\ tasks[id].status.state = COMPLETED =>
            /\ tasks[id].artifacts # <<>>
            /\ \A i \in 1..Len(tasks[id].artifacts) :
                   \/ tasks[id].artifacts[i].type = "text"
                        /\ tasks[id].artifacts[i].text # <<>>
                   \/ tasks[id].artifacts[i].type = "data"
                        /\ tasks[id].artifacts[i].data # <<>>
        /\ tasks[id].status.state = FAILED => tasks[id].status.message # None

\* C5: every streaming run that has started consuming the agent's stream
\* eventually performs its one terminal transition and has emitted exactly
\* one status event flagged final.
C5_StreamTerminates ==
    \A r \in Runs :
        (pc[r] = "stream") ~>
            (/\ Len(transitions[r]) = 1
             /\ transitions[r][1] \in Terminal
             /\ Len(FinalEventsOf(r)) = 1)

\* C6: a one-shot request that passed the modality check performs exactly
\* one transition, to COMPLETED or FAILED, and returns the task record in
\* that state with its artifact or message.
C6_OneTransition ==
    \A r \in Runs : OneShot(r) /\ Ended(r) =>
        /\ Len(transitions[r]) = 1
        /\ transitions[r][1] \in Terminal
        /\ response[r].kind = "task"
        /\ response[r].task[1].status.state = transitions[r][1]
        /\ transitions[r][1] = COMPLETED => response[r].task[1].artifacts # <<>>
        /\ transitions[r][1] = FAILED => response[r].task[1].status.message # None

\* C7: in the ADK manager the state is FAILED exactly for marked content:
\* each status event of a streaming run against the item it reports (a
\* marked item is final and FAILED, an unmarked completion item final and
\* COMPLETED, any other WORKING), the stored state being that of the final
\* event; and the record a one-shot run returns against the agent's result.
C7_Sniffing ==
    manager = "adk" =>
        \A r \in Runs :
            /\ Streaming(r) =>
                /\ \A i \in 1..Len(seen[r]) :
                    LET item == ItemOf(seen[r][i])
                        marked == Marked(item.content)
                        event == events[r][i]
                    IN  /\ event.kind = "status"
                        /\ event.status.message = Some(item.content)
                        /\ (event.status.state = FAILED) <=> marked
                        /\ event.final <=> (marked \/ item.is_task_complete)
                        /\ (event.status.state = WORKING) <=> ~event.final
                /\ seen[r] # <<>> /\ transitions[r] # <<>> =>
                    transitions[r] = <<events[r][Len(seen[r])].status.state>>
            /\ OneShot(r) /\ response[r].kind = "task" =>
                (response[r].task[1].status.state = FAILED)
                    <=> Marked(TerminalText(response[r].task[1].status,
                                            response[r].task[1].artifacts))

\* A streaming run that an intermediate item with "Failed" in it ended as
\* FAILED, and a one-shot run that returned a COMPLETED record.
C7_Witness ==
    /\ manager = "adk"
    /\ \E r \in Runs :
        /\ Streaming(r)
        /\ pc[r] = "done"
        /\ seen[r] # <<>>
        /\ ~ItemOf(seen[r][Len(seen[r])]).is_task_complete
        /\ events[r][Len(seen[r])].final
        /\ transitions[r] = <<FAILED>>
    /\ \E r \in Runs :
        /\ OneShot(r)
        /\ response[r].kind = "task"
        /\ response[r].task[1].status.state = COMPLETED

\* What agent.invoke returns for the runner output a streaming run consumed.
InvokeOutcome(es) ==
    IF es # <<>> /\ es[Len(es)] = RunnerRaised
    THEN invoke_raised(es[Len(es)].err[1])
    ELSE invoke_events(es)

\* C8: a streaming run of the ADK manager that consumed the runner's whole
\* output (ending in a final response, an error event or an exception of
\* the runner) and stored its terminal state has emitted one final
\* notification whose state and text are those of the one-shot record for
\* the same output.
C8_ModesAgree ==
    manager = "adk" =>
        \A r \in Runs :
            (/\ Streaming(r)
             /\ pc[r] = "done"
             /\ seen[r] # <<>>
             /\ transitions[r] # <<>>
             /\ \/ seen[r][Len(seen[r])].final
                \/ seen[r][Len(seen[r])].err # None)
            => /\ Len(FinalEventsOf(r)) = 1
               /\ FinalEventsOf(r)[1].status.state =
                    adk_send_result(InvokeOutcome(seen[r])).status.state
               /\ FinalEventsOf(r)[1].status.message =
                    Some(TerminalText(adk_send_result(InvokeOutcome(seen[r])).status,
                                      adk_send_result(InvokeOutcome(seen[r])).artifacts))

(***************************************************************************)
(* Properties of the session pool                                           *)
(***************************************************************************)
Holders(ep) ==
    {c \in Callers : caller[c].pc = "holding" /\ caller[c].endpoint = ep}

Creating(ep) ==
    {c \in Callers : caller[c].pc \in {"creating", "rollback"}
                        /\ caller[c].endpoint = ep}

\* C9 as stated: create_session is executed at most once per endpoint, and
\* once when a caller has obtained a session.
C9_CreateExactlyOnce ==
    \A ep \in Endpoints :
        /\ create_calls[ep] <= 1
        /\ Holders(ep) # {} => create_calls[ep] = 1

\* C9 amended: create_session is executed once if that execution succeeds;
\* each execution beyond the first follows one that raised (and was rolled
\* back), executions for an endpoint never overlap, at most one succeeds,
\* and a caller has a session only after one succeeded.
C9_OneEstablishment ==
    \A ep \in Endpoints :
        /\ create_calls[ep] <= create_failures[ep] + 1
        /\ sessions_created[ep] <= 1
        /\ Cardinality(Creating(ep)) <= 1
        /\ sessions_created[ep] = 1 => Creating(ep) = {}
        /\ Holders(ep) # {} => sessions_created[ep] = 1

\* Three concurrent acquires of one endpoint, one holding the session and
\* two waiting, after a single create_session.
C9_Witness ==
    \E ep \in Endpoints :
        /\ create_calls[ep] = 1
        /\ create_failures[ep] = 0
        /\ Holders(ep) # {}
        /\ \A c \in Callers : caller[c].endpoint = ep

\* C10: at most one caller holds the session of an endpoint, and while one
\* holds it the queue of the endpoint is empty.
C10_MutualExclusion ==
    \A ep \in Endpoints :
        Cardinality(Holders(ep))
            + (IF ep \in DOMAIN mcp_sessions THEN Len(mcp_sessions[ep]) ELSE 0) <= 1

\* A caller holds the session of an endpoint while another is suspended
\* in queue.get() for the same endpoint.
C10_Witness ==
    \E ep \in Endpoints : \E c1, c2 \in Callers :
        /\ caller[c1] = CallerState("holding", ep, 1)
        /\ caller[c2] = CallerState("getting", ep, NoSession)
        /\ mcp_sessions[ep] = <<>>

Blocked(c) == caller[c].pc \in {"wait_lock", "getting"}

\* C11 as stated: under fairness, with every holder releasing, a caller
\* suspended in acquire (on the lock or on the queue) eventually holds the
\* session.
C11_BlockedObtains ==
    \A c \in Callers : Blocked(c) ~> (caller[c].pc = "holding")

\* C11 amended: a caller suspended in acquire eventually leaves acquire,
\* holding the session or, when it had to establish the connection itself
\* and create_session raised, with that error. A caller suspended on the
\* queue leaves only by obtaining the session; a caller suspended on the
\* lock goes on to the queue, to the session, or to create_session, which
\* ends with the session or by raising.
C11_BlockedLeavesAcquire ==
    /\ \A c \in Callers :
            []<>(caller[c].pc \notin {"wait_lock", "getting", "creating"})
    /\ [][\A c \in Callers :
            /\ caller[c].pc = "getting" =>
                    caller'[c].pc \in {"getting", "holding"}
            /\ caller[c].pc = "wait_lock" =>
                    caller'[c].pc \in {"wait_lock", "getting", "holding", "creating"}
            /\ caller[c].pc = "creating" =>
                    caller'[c].pc \in {"creating", "holding", "rollback"}]_vars

\* One caller holds the session of an endpoint, a second holds the lock
\* suspended in queue.get(), a third waits for the lock.
C11_Witness ==
    \E ep \in Endpoints : \E c1, c2, c3 \in Callers :
        /\ caller[c1] = CallerState("holding", ep, 1)
        /\ caller[c2] = CallerState("getting", ep, NoSession)
        /\ caller[c3] = CallerState("wait_lock", ep, NoSession)
        /\ mcp_session_locks[ep] = Lock(c2, <<c3>>)

(***************************************************************************)
(* Properties of the tool functions                                         *)
(***************************************************************************)
\* The latest step ended a tool function (by a return or an exception).
Returned == tool_return.caller # NoCaller

StringTools == {"summarize_video", "combine_summaries"}

\* C12: the step in which a tool function that holds a session ends puts
\* exactly that session back on the queue of exactly its endpoint, once,
\* and returns a value, however call_tool ended; the queues change in no
\* other way when a tool function ends.
C12_ReleasedOnce ==
    [][\A c \in Callers :
        caller[c].pc = "holding" /\ caller'[c].pc # "holding" =>
            /\ tool_return'.caller = c
            /\ tool_return'.raised = None
            /\ tool_return'.outcome \in CallOutcomes(tool_return'.tool)
            /\ tool_return'.endpoint = caller[c].endpoint
            /\ tool_return'.session = caller[c].session
            /\ DOMAIN mcp_sessions' = DOMAIN mcp_sessions
            /\ \A ep \in DOMAIN mcp_sessions :
                    mcp_sessions'[ep] =
                        IF ep = caller[c].endpoint
                        THEN mcp_sessions[ep] \o <<caller[c].session>>
                        ELSE mcp_sessions[ep]]_vars

\* A tool function whose call_tool returned an error payload has returned,
\* its session back on the queue.
C12_Witness ==
    /\ Returned
    /\ dict_has(tool_return.outcome.result, S_error)
    /\ mcp_sessions[tool_return.endpoint] = <<tool_return.session>>

\* C13: when acquire has raised the establishment error, the endpoint has
\* no queue, no exit stack and no lock.
C13_RolledBack ==
    Returned /\ tool_return.raised # None =>
        /\ tool_return.endpoint \notin DOMAIN mcp_sessions
        /\ tool_return.endpoint \notin mcp_stacks
        /\ tool_return.endpoint \notin DOMAIN mcp_session_locks

\* C16: a tool function whose call_tool raised returns (raises nothing)
\* the text "Error contacting ...: <exception name>", in a one-element
\* list for the tools that return lists.
C16_ExceptionToFailure ==
    Returned /\ tool_return.outcome.exc # None =>
        LET exc == tool_return.outcome.exc[1]
            text == IF tool_return.tool \in StringTools
                    THEN tool_return.value ELSE tool_return.value[1]
        IN  /\ tool_return.raised = None
            /\ tool_return.tool \notin StringTools => Len(tool_return.value) = 1
            /\ SubSeq(text, 1, 16) =
                    <<"E","r","r","o","r"," ","c","o","n","t","a","c","t","i","n","g">>
            /\ Len(text) > 16 + Len(exc)
            /\ SubSeq(text, Len(text) - Len(exc) + 1, Len(text)) = exc

\* get_playlist_videos has returned after its call_tool raised.
C16_Witness ==
    /\ Returned
    /\ tool_return.tool = "get_playlist_videos"
    /\ tool_return.outcome.exc # None
    /\ tool_return.raised = None

\* C17: a tool function always ends by returning a value, whatever acquire
\* and call_tool do.
C17_NoRawException == Returned => tool_return.raised = None

\* The value the normalization policy prescribes for summarizeItem and
\* combine: the value under the success key, else the error message as a
\* failure text, else a bare string itself, else the failure "unexpected
\* result format".
PolicyValue(tool, result) ==
    IF dict_has(result, ToolTexts[tool].key)
    THEN py_str(dict_get(result, ToolTexts[tool].key))
    ELSE IF dict_has(result, S_error)
         THEN ToolTexts[tool].error_from \o py_str(dict_get(result, S_error))
    ELSE IF result.t = "str" THEN result.s
    ELSE S_UnexpectedResultFormat \o ToolTexts[tool].name

\* C18: summarize_video and combine_summaries return what the policy
\* prescribes for every result of call_tool.
C18_Normalization ==
    Returned /\ tool_return.tool \in StringTools /\ tool_return.outcome.exc = None
            /\ tool_return.raised = None =>
        tool_return.value = PolicyValue(tool_return.tool, tool_return.outcome.result)

\* A result that is neither a keyed structure with a list under the known
\* key, nor a keyed structure with an error key, nor None.
Unrecognized(tool, result) ==
    /\ ~(dict_has(result, ToolTexts[tool].key)
            /\ dict_get(result, ToolTexts[tool].key).t = "arr")
    /\ ~dict_has(result, S_error)
    /\ result # PyNone

\* C19: get_channel_videos and get_playlist_videos return the failure
\* "unexpected result format" for every unrecognized result, and the two
\* treat every result alike: both fail, or both return the same list.
C19_ListNormalization ==
    Returned /\ tool_return.tool \notin StringTools /\ tool_return.outcome.exc = None
            /\ tool_return.raised = None =>
        LET result == tool_return.outcome.result
            channel == get_channel_videos_result(result)
            playlist == get_playlist_videos_result(result)
        IN  /\ Unrecognized(tool_return.tool, result) =>
                    tool_return.value =
                        <<S_UnexpectedResultFormat \o ToolTexts[tool_return.tool].name>>
            /\ \/ channel = playlist
               \/ /\ Len(channel) = 1 /\ Len(playlist) = 1
                  /\ StartsWith(channel[1], <<"E","r","r","o","r">>)
                  /\ StartsWith(playlist[1], <<"E","r","r","o","r">>)

\* C14: cleanup of an endpoint, run when no tool call is in progress, leaves
\* no queue, no exit stack and no lock for the endpoint; a second cleanup
\* changes nothing more; and for an endpoint that has no queue, stack or lock
\* it changes nothing.
C14_Teardown ==
    NoToolCallRunning =>
        \A ep \in Endpoints :
            LET before == PoolState(mcp_session_locks, mcp_sessions, mcp_stacks)
                after == cleanup_mcp_session_result(before, ep)
            IN  /\ ep \notin after.stacks
                /\ ep \notin DOMAIN after.sessions
                /\ ep \notin DOMAIN after.locks
                /\ cleanup_mcp_session_result(after, ep) = after
                /\ (/\ ep \notin before.stacks
                    /\ ep \notin DOMAIN before.sessions
                    /\ ep \notin DOMAIN before.locks) => after = before

\* Some other tool call is inside get_mcp_session for the endpoint.
OthersWaiting(ep) ==
    \E c \in Callers :
        caller[c].endpoint = ep /\ caller[c].pc \in {"wait_lock", "getting", "creating"}

\* C15: when a tool function that held a session has ended and no other
\* tool call is inside acquire for its endpoint, the endpoint's queue holds
\* exactly that one session; every acquire that finds the endpoint's session
\* established makes no create_session call and returns the session that
\* the first acquire returned; and at most one session is ever established
\* per endpoint.
C15_HandleReuse ==
    /\ [](Returned /\ tool_return.raised = None
                /\ ~OthersWaiting(tool_return.endpoint) =>
            mcp_sessions[tool_return.endpoint] = <<tool_return.session>>)
    /\ [](\A ep \in Endpoints : sessions_created[ep] <= 1)
    /\ [][\A c \in Callers :
            /\ caller[c].pc # "holding"
            /\ caller'[c].pc = "holding"
            /\ sessions_created[caller'[c].endpoint] = 1
            => /\ caller'[c].session = 1
               /\ create_calls' = create_calls
               /\ sessions_created' = sessions_created]_vars

\* A tool function has returned session 1 to the queue of e1, which one
\* create_session call established, and no tool call is in progress.
C15_Witness ==
    /\ Returned
    /\ tool_return.endpoint = "e1"
    /\ tool_return.session = 1
    /\ mcp_sessions["e1"] = <<1>>
    /\ create_calls["e1"] = 1
    /\ \A c \in Callers : caller[c].pc = "idle"

IsFailure(value) == Len(value) >= 1 /\ StartsWith(value[1], S_Error)

\* The text a FAILED peer reported: the first text part of its status
\* message, if there is one.
ReportedMessage(message) ==
    IF message # None /\ message[1] # <<>> /\ message[1][1].type = "text"
    THEN Some(message[1][1].text) ELSE None

\* C20: find_videos_via_a2a ends by returning a list of texts; when
\* send_task raised, or the peer's state is SUBMITTED or WORKING, the list
\* is a failure (its first element begins "Error:"); when the peer's state is
\* FAILED the list is the one failure text "Error: YouTube agent task
\* failed: " followed by the peer's reported message, or by "Unknown reason"
\* when the peer reported none.
C20_DelegateResult ==
    Returned /\ tool_return.tool = "find_videos_via_a2a" =>
        LET reply == tool_return.outcome
            value == tool_return.value
        IN  /\ tool_return.raised = None
            /\ \A i \in 1..Len(value) : value[i] \in Seq(STRING)
            /\ reply.raised # None => IsFailure(value)
            /\ reply.raised = None /\ reply.state \in {SUBMITTED, WORKING}
                    => IsFailure(value)
            /\ reply.raised = None /\ reply.state = FAILED =>
                    value = <<S_TaskFailed \o
                                (IF ReportedMessage(reply.message) = None
                                 THEN S_UnknownReason
                                 ELSE ReportedMessage(reply.message)[1])>>

\* The first data part of the reply's artifacts that holds a list, if any.
DataLists(reply) ==
    SelectSeq(artifact_parts(reply.artifacts),
              LAMBDA part : part.type = "data" /\ part.data.t = "arr")

Completed(reply) == reply.raised = None /\ reply.state = COMPLETED

\* C21: for a COMPLETED reply that holds a data part with a list,
\* find_videos_via_a2a returns that list (each item as text), whatever text
\* parts stand before it.
C21_PrefersData ==
    Returned /\ tool_return.tool = "find_videos_via_a2a"
            /\ Completed(tool_return.outcome)
            /\ DataLists(tool_return.outcome) # <<>> =>
        tool_return.value = py_str_list(DataLists(tool_return.outcome)[1].data)

\* C22: for a COMPLETED reply without artifacts find_videos_via_a2a returns
\* the failure it returns when no artifact can be parsed.
C22_NoArtifacts ==
    Returned /\ tool_return.tool = "find_videos_via_a2a"
            /\ Completed(tool_return.outcome)
            /\ tool_return.outcome.artifacts = <<>> =>
        tool_return.value = <<S_NoValidVideoList>>

\* The reply of the same state and message that carries the list as the
\* JSON text of one text part.
AsTextReply(reply, list) ==
    PeerResponse(reply.raised, reply.state, reply.message,
                 <<<<TextPart(json_dumps(list))>>>>)

\* C23: when a COMPLETED reply carries a list as its one data part, the
\* function returns what it returns for the reply carrying the JSON encoding
\* of the list as its one text part, in both packages.
C23_RoundTrip ==
    Returned /\ Completed(tool_return.outcome)
            /\ (\E l \in PeerLists : tool_return.outcome.artifacts = <<<<DataPart(l)>>>>) =>
        LET reply == tool_return.outcome
            list == reply.artifacts[1][1].data
        IN  /\ tool_return.tool = "find_videos_via_a2a" =>
                    tool_return.value = find_videos_result(AsTextReply(reply, list))
            /\ tool_return.tool = "find_videos_via_a2a_unpooled" =>
                    tool_return.value = find_videos_unpooled_result(AsTextReply(reply, list))

(***************************************************************************)
(* Properties of the workflow                                               *)
(***************************************************************************)
\* The tool function returned one of its failure texts, or raised.
ToolFailed(call) ==
    \/ call.value = None
    \/ StartsWith(call.value[1], ToolTexts[call.tool].error_from)
    \/ StartsWith(call.value[1], ToolTexts[call.tool].contacting)
    \/ StartsWith(call.value[1], S_UnexpectedResultFormat)

CallsOf(tool) == SelectSeq(wf.calls, LAMBDA call : call.tool = tool)

SucceededCalls(tool) ==
    SelectSeq(wf.calls, LAMBDA call : call.tool = tool /\ ~ToolFailed(call))

\* Discovery returned a non-empty list that is no failure.
DiscoveredIds ==
    /\ wf.videos # <<>>
    /\ ~(Len(wf.videos[1]) >= 6 /\ SubSeq(wf.videos[1], 1, 6) = S_Error)

TaskEnded == wf.pc = "done"

\* C24: a task whose discovery returned the empty list ends FAILED, with no
\* call of summarize_video or combine_summaries.
C24_EmptyDiscovery ==
    TaskEnded /\ wf.videos = <<>> =>
        /\ wf.status.state = FAILED
        /\ CallsOf("summarize_video") = <<>>
        /\ CallsOf("combine_summaries") = <<>>

C26_SuccessfulSubset ==
    TaskEnded /\ DiscoveredIds /\ SucceededCalls("summarize_video") # <<>> =>
        /\ Len(CallsOf("summarize_video")) = Len(wf.videos)
        /\ Len(CallsOf("combine_summaries")) = 1
        /\ CallsOf("combine_summaries")[1].arg =
                [i \in 1..Len(SucceededCalls("summarize_video")) |->
                    SucceededCalls("summarize_video")[i].value[1]]

\* C27: a task that discovered N >= 1 videos and whose summarize_video
\* calls all failed ends FAILED without a call of combine_summaries.
C27_AllItemsFail ==
    TaskEnded /\ DiscoveredIds /\ SucceededCalls("summarize_video") = <<>> =>
        /\ wf.status.state = FAILED
        /\ CallsOf("combine_summaries") = <<>>

\* C28: a task in which a video was summarized successfully and
\* combine_summaries succeeded ends COMPLETED with one artifact that holds
\* the combined summary.
C28_PartialIsSuccess ==
    TaskEnded /\ SucceededCalls("summarize_video") # <<>>
            /\ SucceededCalls("combine_summaries") # <<>> =>
        /\ wf.status.state = COMPLETED
        /\ Len(wf.artifacts) = 1
        /\ Contains(wf.artifacts[1].text, wf.combined[1])

\* The failure a task met: the failure list of discovery, or the failure
\* text of combine_summaries.
TotalFailure ==
    IF wf.videos # <<>> /\ ~DiscoveredIds THEN Some(wf.videos[1])
    ELSE IF wf.combined # None /\ SucceededCalls("combine_summaries") = <<>>
         THEN wf.combined
    ELSE None

\* C29: a task whose discovery returned a failure, or whose
\* combine_summaries returned a failure, ends FAILED with a status message
\* that holds the failure text, and without artifacts.
C29_TotalIsFailure ==
    TaskEnded /\ TotalFailure # None =>
        /\ wf.status.state = FAILED
        /\ wf.status.message # None
        /\ Contains(wf.status.message[1], TotalFailure[1])
        /\ wf.artifacts = <<>>

(***************************************************************************)
(* Properties of concurrent tasks                                           *)
(***************************************************************************)
\* _run_streaming_agent: every item the generator yields is put on the SSE
\* queue of request.params.id; a status or artifact event carries
\* task_send_params.id, the JSON-RPC error carries no task id.
run_streaming_agent(r) ==
    [i \in 1..Len(events[r]) |->
        [queue |-> req[r].id,
         id |-> IF events[r][i].kind = "rpc_error" THEN None ELSE Some(req[r].id),
         result |-> events[r][i]]]

\* What the store holds about a task id.
Stored(id) == IF id \in DOMAIN tasks THEN Some(tasks[id]) ELSE None

\* The store with every task but id removed.
OnlyTask(id) == [i \in DOMAIN tasks \cap {id} |-> tasks[i]]

\* The run took the step.
Acted(r) ==
    <<pc[r], req[r], seen[r], pending[r], events[r], response[r], transitions[r]>>'
        # <<pc[r], req[r], seen[r], pending[r], events[r], response[r], transitions[r]>>

\* A step of a run leaves what is stored about every other task id as it was.
OthersUntouched ==
    \A r \in Runs :
        Acted(r) => \A b \in TaskIds \ {req'[r].id} : Stored(b)' = Stored(b)

\* What a run's upsert and update write into its own task does not depend on
\* any other task in the store.
OthersUnread ==
    \A r \in Runs :
        LET a == req[r].id
        IN  /\ \A q \in Requests :
                upsert_task(tasks, q.id, RequestMessage(q))[q.id]
                    = upsert_task(OnlyTask(q.id), q.id, RequestMessage(q))[q.id]
            /\ a \in DOMAIN tasks =>
                    update_store(tasks, a, pending[r].status, pending[r].artifacts)[a]
                        = update_store(OnlyTask(a), a, pending[r].status,
                                       pending[r].artifacts)[a]

\* Every event of a run goes to its own task's queue and carries its own
\* task id, if any.
OwnEventsOnly ==
    \A r \in Runs :
        \A i \in 1..Len(run_streaming_agent(r)) :
            LET e == run_streaming_agent(r)[i]
            IN  /\ e.queue = req[r].id
                /\ e.id \in {None, Some(req[r].id)}

\* A step of a run touches its own task only and leaves the session pool
\* alone.
IsolatedStep ==
    /\ OthersUntouched
    /\ (\E r \in Runs : Acted(r)) => UNCHANGED <<poolvars, agentvars>>

ArtifactEventsInOrder ==
    \A r \in Runs :
        \A i \in 1..Len(events[r]) :
            events[r][i].kind = "artifact" =>
                /\ Streaming(r)
                /\ \A j \in 1..i : ~events[r][j].final
                /\ \E j \in (i + 1)..Len(events[r]) :
                        /\ IsFinalStatus(events[r][j])
                        /\ events[r][j].status.state = COMPLETED
                /\ transitions[r] = <<COMPLETED>>

\* A step that emits an artifact event is taken with the task just stored
\* as COMPLETED.
ArtifactEmittedWhenCompleted ==
    \A r \in Runs :
        (\E i \in (Len(events[r]) + 1)..Len(events'[r]) :
                events'[r][i].kind = "artifact")
            => /\ req[r].id \in DOMAIN tasks'
               /\ tasks'[req[r].id].status.state = COMPLETED
               /\ pending[r].status.state = COMPLETED

\* C31: in a streaming run artifact-update events are emitted only when the
\* task's terminal state is COMPLETED, each of them before the final
\* status-update event; none is emitted for an item that is WORKING or
\* FAILED, and none after the event flagged final.
C31_ArtifactEvents ==
    /\ []ArtifactEventsInOrder
    /\ [][ArtifactEmittedWhenCompleted]_vars

\* A streaming run has emitted an artifact event and then its final status
\* event, after a WORKING status event.
C31_Witness ==
    \E r \in Runs :
        /\ Len(events[r]) >= 3
        /\ events[r][1].kind = "status" /\ events[r][1].status.state = WORKING
        /\ events[r][Len(events[r]) - 1].kind = "artifact"
        /\ IsFinalStatus(events[r][Len(events[r])])

(***************************************************************************)
(* _parse_agent_result over the strings an agent can hand it                *)
(***************************************************************************)
\* An output string with what it was built from: the JSON text of a list
\* ("list"), of another JSON value ("json"), or a text that is not JSON
\* ("text").
AgentOutput(text, kind, value) == [text |-> text, kind |-> kind, value |-> value]

Padding == {<<>>, <<" ">>}

NonListValues ==
    {JString(<<"v", "1">>), JString(S_Error \o <<" ", "x">>),
     JValue("num", <<"5">>, <<>>), PyDict(<<>>), PyNone,
     JValue("lit", S_true, <<>>)}

NonJsonTexts ==
    {<<>>, G_NoVideos, S_Error \o <<" ", "x">>, <<"[">>,
     <<"[", "\"", "v", "1", "\"", ",", "]">>,
     <<"[", "'", "v", "1", "'", "]">>,
     <<"[", "\"", "v", "1", "\"", "]", " ", "x">>}

AgentOutputs ==
    {AgentOutput(a \o json_dumps(l) \o b, "list", l) :
        l \in PeerLists, a \in Padding, b \in Padding}
    \cup {AgentOutput(json_dumps(v), "json", v) : v \in NonListValues}
    \cup {AgentOutput(t, "text", PyNone) : t \in NonJsonTexts}

\* One call of _parse_agent_result(str(result_content)).
parse_agent_result_call(c) ==
    /\ manager = "langgraph"
    /\ caller[c].pc = "idle"
    /\ \E out \in AgentOutputs :
            tool_return' =
                [caller |-> c, tool |-> "_parse_agent_result",
                 endpoint |-> NoEndpoint, session |-> NoSession,
                 outcome |-> out, value |-> parse_agent_result(out.text),
                 raised |-> None]
    /\ UNCHANGED <<mcp_session_locks, mcp_sessions, mcp_stacks, caller,
                   create_calls, create_failures, sessions_created>>
    /\ UNCHANGED <<tmvars, wf, agentvars>>

ParseNext == \E c \in Callers : parse_agent_result_call(c)

SpecParse == Init /\ [][ParseNext]_vars

\* The output is the JSON text of a list whose first element is not a
\* string beginning "Error:".
IsVideoList(out) ==
    /\ out.kind = "list"
    /\ ~ /\ out.value.items # <<>>
         /\ out.value.items[1].t = "str"
         /\ Len(out.value.items[1].s) >= 6
         /\ SubSeq(out.value.items[1].s, 1, 6) = <<"E", "r", "r", "o", "r", ":">>

S_ErrorCallingMcpTool ==
    <<"E","r","r","o","r"," ","c","a","l","l","i","n","g"," ","M","C","P"," ",
      "t","o","o","l"," ">>

ToolFunctionName(tool) ==
    IF tool = "get_channel_videos"
    THEN <<"g","e","t","_","c","h","a","n","n","e","l","_","v","i","d","e","o","s">>
    ELSE <<"g","e","t","_","p","l","a","y","l","i","s","t","_","v","i","d","e","o","s">>

\* get_channel_videos_tool_sync / get_playlist_videos_tool_sync: the JSON
\* text of the list the tool function returned, or of the one-element list
\* naming the exception that left it.
tool_sync_result(ret) ==
    IF ret.raised # None
    THEN json_dumps_strings(<<S_ErrorCallingMcpTool \o ToolFunctionName(ret.tool)
                                \o <<":", " ">> \o ret.raised[1]>>)
    ELSE json_dumps_strings(ret.value)

\* The reply the ADK agent's send_task receives for a task the LangGraph
\* on_send_task has stored: its state, its status message, its artifacts.
peer_task_reply(res) ==
    LET status == lg_send_status(res.state, res.artifacts)
        stored == lg_stored_artifacts(res.state, res.artifacts)
    IN  PeerResponse(None, status.state,
            IF status.message = None THEN None
            ELSE Some(<<TextPart(status.message[1])>>),
            [i \in 1..Len(stored) |->
                IF stored[i].type = "data"
                THEN <<DataPart(JArray(stored[i].data))>>
                ELSE <<TextPart(stored[i].text)>>])

\* The latest step ended a tool function with a Failure of the tool layer:
\* an exception (raised by call_tool, or leaving the function), an error
\* payload, or the unexpected-format text.
ToolLayerFailure ==
    /\ Returned
    /\ tool_return.tool \in DOMAIN ToolTexts
    /\ \/ tool_return.raised # None
       \/ tool_return.outcome.exc # None
       \/ /\ dict_has(tool_return.outcome.result, S_error)
          /\ ~dict_has(tool_return.outcome.result, ToolTexts[tool_return.tool].key)
       \/ /\ tool_return.tool \in StringTools
          /\ StartsWith(tool_return.value, S_UnexpectedResultFormat)

\* C33: failure markers are consistent across the layers.  Every Failure of
\* the tool layer or its sync wrappers (error payload, caught exception,
\* unexpected format) is recognised by the consumers above it: a listItems
\* Failure relayed unchanged makes _parse_agent_result give FAILED and
\* find_videos_via_a2a return an error list, never a list of item
\* identifiers; a Failure text of summarizeItem or combine satisfies the
\* "error:" / "failed" predicate of the ADK task manager.
C33_MarkersConsistent ==
    ToolLayerFailure =>
        IF tool_return.tool \in StringTools
        THEN ContentSignalsError(IF tool_return.raised # None
                                 THEN invoke_raised(tool_return.raised[1])
                                 ELSE tool_return.value)
        ELSE LET res == parse_agent_result(graph_result(tool_sync_result(tool_return)))
             IN  /\ res.state = FAILED
                 /\ IsFailure(find_videos_result(peer_task_reply(res)))

\* ---------------------------------------------------------------------
\* The pool while a cleanup runs on the loop of the tool calls
\* ---------------------------------------------------------------------

\* The callers that have a session of the endpoint in hand: borrowed, or
\* on its way into the queue.
Borrowers(ep) ==
    {c \in Callers : /\ caller[c].endpoint = ep
                     /\ caller[c].pc \in {"holding", "putting", "stranded_put",
                                          "init_putting"}}

\* The sessions of the endpoint in circulation: queued plus held.
InCirculation(ep) ==
    (IF ep \in DOMAIN mcp_sessions THEN Len(mcp_sessions[ep]) ELSE 0)
        + Cardinality(Borrowers(ep))

\* stack.aclose() closed the session: the open one is the latest session of
\* an endpoint whose stack is registered and established.
ClosedSession(ep, session) ==
    ~ /\ ep \in mcp_stacks
      /\ Creating(ep) = {}
      /\ session = sessions_created[ep]

\* The step returns from get_mcp_session to the caller.
AcquireReturns(c) == caller[c].pc # "holding" /\ caller'[c].pc = "holding"

OpenSessionHandedOut ==
    \A c \in Callers :
        AcquireReturns(c) =>
            \E ep \in Endpoints :
                /\ caller'[c].endpoint = ep
                /\ \E session \in 1..sessions_created[ep] + 1 :
                        /\ caller'[c].session = session
                        /\ ~ClosedSession(ep, session)'

\* The caller is suspended inside release_mcp_session.
ReleaseSuspended(c) == caller[c].pc \in {"putting", "stranded_put"}

\* C34: the pool's capacity is preserved under teardown.  Over every
\* interleaving of acquire, release and teardown on an endpoint (teardown
\* while a handle is borrowed, a re-initialising acquire, a late release of
\* the old handle included) the handles in circulation, queued plus held,
\* never exceed the capacity; acquire never hands out a handle that the
\* teardown closed; and a release never stays suspended on a full queue.
C34_CapacityUnderTeardown ==
    /\ [](\A ep \in Endpoints : InCirculation(ep) <= QueueMaxSize)
    /\ [][OpenSessionHandedOut]_vars
    /\ \A c \in Callers : ReleaseSuspended(c) ~> ~ReleaseSuspended(c)

\* The cleanup ran while the caller was suspended inside get_mcp_session,
\* on the queue or on the lock.
SuspendedAtTeardown(c) == caller[c].pc \in {"stranded_get", "stranded_lock"}

\* get_mcp_session has returned a session to the caller, or the tool call
\* has ended.
AcquireReturned(c) == caller[c].pc \in {"holding", "idle"}

\* C35: teardown does not strand waiters.  A caller suspended inside
\* acquire when the teardown of its endpoint runs eventually returns from
\* acquire, with a handle or with an error.
C35_WaitersNotStranded ==
    \A c \in Callers : SuspendedAtTeardown(c) ~> AcquireReturned(c)

\* ---------------------------------------------------------------------
\* The lazily initialised toolset under concurrent first calls
\* ---------------------------------------------------------------------

\* The toolsets whose connection has been entered.
EnteredToolsets == {t \in DOMAIN toolsets : toolsets[t].entered}

\* The callers get_mcp_tools has returned a tool table to.
Served == {c \in Callers : tools_caller[c].pc = "returned"}

\* C36: lazy toolset initialisation happens once.  For concurrent first
\* calls of get_summary_mcp_tools / get_mcp_tools, under every interleaving
\* of their suspension points, the connection is entered once, the tools
\* are loaded once, and all callers receive the same tool table.
C36_InitializedOnce ==
    /\ Cardinality(EnteredToolsets) <= 1
    /\ TablesLoaded(toolsets) <= 1
    /\ \A c, d \in Served : tools_caller[c].tools = tools_caller[d].tools

\* ---------------------------------------------------------------------
\* One streaming request of the discovery agent
\* ---------------------------------------------------------------------

\* Items with is_task_complete false, then, once stream() is over, one
\* item with is_task_complete true, the last.
ItemsInOrder(s) ==
    /\ \A i \in 1..Len(s.items) :
            s.items[i].is_task_complete <=> (s.pc = "done" /\ i = Len(s.items))
    /\ s.pc = "done" => s.items # <<>>

\* C39: one streaming request executes the discovery agent once.
\* YouTubeVideoAgent.stream runs the graph, and so each of its remote tool
\* calls, once per request; it yields items with is_task_complete false
\* followed by exactly one item with is_task_complete true, the last item,
\* also when the graph raises.
C39_GraphRunsOnce ==
    \A r \in Runs :
        /\ agent_stream[r].graph_runs <= 1
        /\ agent_stream[r].tool_calls <= agent_stream[r].query_calls
        /\ ItemsInOrder(agent_stream[r])

\* ---------------------------------------------------------------------
\* Requests whose message has no parts, and rejected requests
\* ---------------------------------------------------------------------

\* The run serves an accepted request whose message has no parts.
NoPartsAccepted(r) == pc[r] \notin {"idle", "rejected"} /\ ~req[r].hasParts

\* What the client of an ended run has: the task record in FAILED returned
\* by on_send_task, or a final FAILED status-update as last event.
FailedTerminal(r) ==
    IF Streaming(r)
    THEN /\ events[r] # <<>>
         /\ IsFinalStatus(events[r][Len(events[r])])
         /\ events[r][Len(events[r])].status.state = FAILED
    ELSE /\ response[r].kind = "task"
         /\ response[r].task[1].status.state = FAILED

\* C37: every accepted request reaches a terminal state even when its
\* query cannot be extracted.  For an accepted request whose message has
\* no parts no exception leaves the handler, and once the run has ended
\* on_send_task has returned a task record in FAILED, or the stream has
\* given a final FAILED status-update, and the stored task is FAILED, not
\* SUBMITTED.
C37_NoPartsFails ==
    \A r \in Runs :
        NoPartsAccepted(r) =>
            /\ response[r].kind # "raised"
            /\ Ended(r) =>
                /\ FailedTerminal(r)
                /\ tasks[req[r].id].status.state = FAILED

\* The step returns the incompatible-types error to run r's request.
Rejects(r) == pc[r] = "idle" /\ pc'[r] = "rejected"

\* A rejecting step leaves the task store, every run's events and every
\* run's view of the agent as they are.
RejectionHasNoEffect ==
    (\E r \in Runs : Rejects(r)) =>
        UNCHANGED <<tasks, events, seen, pending, transitions>>

\* A request with incompatible output modes is rejected, and a rejected
\* run has the incompatible-types error, no event and no agent item.
IncompatibleRejected ==
    \A r \in Runs :
        /\ (pc[r] # "idle" /\ ~req[r].compatible) => pc[r] = "rejected"
        /\ pc[r] = "rejected" =>
            /\ ~req[r].compatible
            /\ response[r] = IncompatibleTypesResponse
            /\ events[r] = <<>>
            /\ seen[r] = <<>>
            /\ transitions[r] = <<>>

\* C38: rejection has no effect.  When the accepted output modes of a
\* request are incompatible with the agent's output types, on_send_task and
\* on_send_task_subscribe return the incompatible-types error, leave the
\* task store unchanged, do not invoke the agent and emit no events.
C38_RejectionNoEffect ==
    /\ []IncompatibleRejected
    /\ [][RejectionHasNoEffect]_vars

\* A request is rejected while the store holds the task of another run.
C38_Witness ==
    \E r \in Runs :
        /\ pc[r] = "rejected"
        /\ tasks # <<>>
        /\ req[r].id \notin DOMAIN tasks

====
